---- MODULE Spec2Model ----
(***************************************************************************)
(* A model of acmedinotech/form-state: the event bus, the path resolver,   *)
(* the structural differ, the scope collector, the document context and    *)
(* the action store with its standard-ops reducer.                         *)
(*                                                                         *)
(* Strings that the code splits, joins, measures or compares (paths,       *)
(* scopes, topics, event names) are sequences of tokens: each delimiter    *)
(* character ("/", ":", "[", "]") is a token of its own and every maximal  *)
(* run of other characters is one token, so 'b/c' is <<"b", "/", "c">>.    *)
(* JSON values are tagged records [t, v]; an object is an ordered sequence *)
(* of <<key, value>> pairs (JavaScript keeps insertion order).             *)
(***************************************************************************)
EXTENDS Integers, Sequences, FiniteSets, TLC

(***************************************************************************)
(* Strings                                                                 *)
(***************************************************************************)

RECURSIVE SumLen(_)
SumLen(s) == IF s = <<>> THEN 0 ELSE Len(Head(s)) + SumLen(Tail(s))

\* String.prototype.length
StrLen(s) == SumLen(s)

RECURSIVE SplitAcc(_, _, _, _)
SplitAcc(s, d, cur, acc) ==
    IF s = <<>> THEN Append(acc, cur)
    ELSE IF Head(s) = d THEN SplitAcc(Tail(s), d, <<>>, Append(acc, cur))
    ELSE SplitAcc(Tail(s), d, Append(cur, Head(s)), acc)

\* String.prototype.split(d): ''.split(d) is [''], 'a//b'.split('/') is ['a','','b']
Split(s, d) == SplitAcc(s, d, <<>>, <<>>)

RECURSIVE Join(_, _)
\* Array.prototype.join(d)
Join(parts, d) ==
    IF parts = <<>> THEN <<>>
    ELSE IF Len(parts) = 1 THEN parts[1]
    ELSE parts[1] \o <<d>> \o Join(Tail(parts), d)

\* Array.prototype.pop (the remaining array)
Pop(s) == SubSeq(s, 1, Len(s) - 1)

Last(s) == s[Len(s)]

\* UTF-16 code units of the tokens the model uses
TokChars(tok) ==
    CASE tok = "*" -> <<42>>
      [] tok = "." -> <<46>>
      [] tok = "/" -> <<47>>
      [] tok = "0" -> <<48>>
      [] tok = "1" -> <<49>>
      [] tok = "2" -> <<50>>
      [] tok = ":" -> <<58>>
      [] tok = "[" -> <<91>>
      [] tok = "]" -> <<93>>
      [] tok = "a" -> <<97>>
      [] tok = "b" -> <<98>>
      [] tok = "c" -> <<99>>
      [] tok = "d" -> <<100>>
      [] tok = "e" -> <<101>>
      [] tok = "k" -> <<107>>
      [] tok = "x" -> <<120>>
      [] tok = "cc" -> <<99, 99>>
      [] tok = "tags" -> <<116, 97, 103, 115>>
      [] tok = "email" -> <<101, 109, 97, 105, 108>>
      [] tok = "phone" -> <<112, 104, 111, 110, 101>>
      [] tok = "contact" -> <<99, 111, 110, 116, 97, 99, 116>>
      [] tok = "primary" -> <<112, 114, 105, 109, 97, 114, 121>>

RECURSIVE StrChars(_)
StrChars(s) == IF s = <<>> THEN <<>> ELSE TokChars(Head(s)) \o StrChars(Tail(s))

RECURSIVE CodesLess(_, _)
CodesLess(a, b) ==
    IF b = <<>> THEN FALSE
    ELSE IF a = <<>> THEN TRUE
    ELSE IF Head(a) # Head(b) THEN Head(a) < Head(b)
    ELSE CodesLess(Tail(a), Tail(b))

\* a < b on strings
StrLess(a, b) == CodesLess(StrChars(a), StrChars(b))

\* sortString(a, b) for defined strings: -1, 0 or 1
sortString(a, b) ==
    IF a = b THEN 0 ELSE IF StrLess(a, b) THEN -1 ELSE IF StrLess(b, a) THEN 1 ELSE 0

\* parseInt of a bracket content: NaN is modelled as -1 (the code only tests isNaN)
NaN == -1
parseInt(raw) ==
    IF raw = <<>> THEN NaN
    ELSE CASE raw[1] = "0" -> 0
           [] raw[1] = "1" -> 1
           [] raw[1] = "2" -> 2
           [] OTHER -> NaN

\* String(i) for an array index
IndexTok(i) == CASE i = 0 -> "0" [] i = 1 -> "1" [] i = 2 -> "2" [] i = 3 -> "3" [] OTHER -> "9"

(***************************************************************************)
(* JSON values                                                             *)
(***************************************************************************)

Num(n) == [t |-> "num", v |-> n]
StrV(s) == [t |-> "str", v |-> s]
Null == [t |-> "null", v |-> 0]
Undef == [t |-> "undef", v |-> 0]
Hole == [t |-> "hole", v |-> 0]
Obj(pairs) == [t |-> "obj", v |-> pairs]
Arr(elems) == [t |-> "arr", v |-> elems]

\* !!x
Truthy(x) ==
    CASE x.t = "obj" -> TRUE
      [] x.t = "arr" -> TRUE
      [] x.t = "num" -> x.v # 0
      [] x.t = "str" -> x.v # ""
      [] x.t = "bool" -> x.v
      [] OTHER -> FALSE

\* typeof x === 'object'
TypeofObject(x) == x.t \in {"obj", "arr", "null"}

\* x === undefined (a hole of a sparse array reads as undefined)
IsUndefined(x) == x.t \in {"undef", "hole"}

\* the value read from a slot
Rd(x) == IF x.t = "hole" THEN Undef ELSE x

HasKey(o, k) == \E i \in 1..Len(o.v) : o.v[i][1] = k

KeyPos(o, k) == CHOOSE i \in 1..Len(o.v) : o.v[i][1] = k

\* o[k] on an object
Get(o, k) == IF HasKey(o, k) THEN o.v[KeyPos(o, k)][2] ELSE Undef

\* o[k] = x on an object: an existing key keeps its place, a new one goes last
PutKey(o, k, x) ==
    IF HasKey(o, k)
    THEN Obj([i \in 1..Len(o.v) |-> IF o.v[i][1] = k THEN <<k, x>> ELSE o.v[i]])
    ELSE Obj(Append(o.v, <<k, x>>))

\* delete o[k]
DelKey(o, k) == Obj(SelectSeq(o.v, LAMBDA p : p[1] # k))

\* a[i] on an array (0-based)
Elem(a, i) == IF i >= 0 /\ i < Len(a.v) THEN Rd(a.v[i + 1]) ELSE Undef

\* a[i] = x on an array (0-based); writing past the end leaves holes
SetElem(a, i, x) ==
    Arr([j \in 1..(IF i + 1 > Len(a.v) THEN i + 1 ELSE Len(a.v)) |->
            IF j = i + 1 THEN x ELSE IF j <= Len(a.v) THEN a.v[j] ELSE Hole])

\* Object.keys(x)
ObjectKeys(x) ==
    CASE x.t = "obj" -> [i \in 1..Len(x.v) |-> x.v[i][1]]
      [] x.t = "arr" ->
            LET idx == SelectSeq([i \in 1..Len(x.v) |-> i], LAMBDA i : x.v[i].t # "hole")
            IN [j \in 1..Len(idx) |-> <<IndexTok(idx[j] - 1)>>]
      [] OTHER -> <<>>

\* x[k] for a key string k, on an object or an array
Prop(x, k) ==
    CASE x.t = "obj" -> Get(x, k)
      [] x.t = "arr" -> IF Len(k) = 1 /\ parseInt(k) # NaN THEN Elem(x, parseInt(k)) ELSE Undef
      [] OTHER -> Undef

RECURSIVE jsonClone(_)
\* JSON.parse(JSON.stringify(x)): undefined members are dropped, undefined
\* elements and holes become null
jsonClone(x) ==
    CASE x.t = "obj" ->
            LET kept == SelectSeq(x.v, LAMBDA p : ~IsUndefined(p[2]))
            IN Obj([i \in 1..Len(kept) |-> <<kept[i][1], jsonClone(kept[i][2])>>])
      [] x.t = "arr" ->
            Arr([i \in 1..Len(x.v) |->
                    IF IsUndefined(x.v[i]) THEN Null ELSE jsonClone(x.v[i])])
      [] OTHER -> x

\* { ...x } : a shallow copy has the same content
Spread(x) == x

(***************************************************************************)
(* Path resolver                                                           *)
(***************************************************************************)

\* parsePathComponent(component): key = <<>> stands for an undefined key,
\* hasIndex = FALSE for an undefined index
parsePathComponent(component) ==
    LET parts == Split(component, "[")
        name == parts[1]
        hasRest == Len(parts) >= 2 /\ parts[2] # <<>>
        rawIndex == IF hasRest THEN Split(parts[2], "]")[1] ELSE <<>>
        index == parseInt(rawIndex)
    IN IF ~hasRest
       THEN [name |-> name, isArray |-> FALSE, hasIndex |-> FALSE, index |-> 0, key |-> <<>>]
       ELSE IF rawIndex # <<>>
            THEN IF index = NaN
                 THEN [name |-> name, isArray |-> FALSE, hasIndex |-> FALSE, index |-> 0,
                       key |-> rawIndex]
                 ELSE [name |-> name, isArray |-> TRUE, hasIndex |-> TRUE, index |-> index,
                       key |-> <<>>]
            ELSE [name |-> name, isArray |-> TRUE, hasIndex |-> FALSE, index |-> 0,
                  key |-> <<>>]

\* A reference into a document: the steps from the root to the node
KeyStep(k) == [k |-> "key", key |-> k, i |-> 0]
IdxStep(i) == [k |-> "idx", key |-> <<>>, i |-> i]

RECURSIVE GetAt(_, _)
\* the node a reference points at
GetAt(root, at) ==
    IF at = <<>> THEN root
    ELSE IF Head(at).k = "key" THEN GetAt(Get(root, Head(at).key), Tail(at))
    ELSE GetAt(Elem(root, Head(at).i), Tail(at))

RECURSIVE SetAt(_, _, _)
\* the document after the node a reference points at was mutated to x
SetAt(root, at, x) ==
    IF at = <<>> THEN x
    ELSE IF Head(at).k = "key"
         THEN PutKey(root, Head(at).key, SetAt(Get(root, Head(at).key), Tail(at), x))
         ELSE SetElem(root, Head(at).i, SetAt(Elem(root, Head(at).i), Tail(at), x))

\* Outcome of a walk: "ok", "grammar" (the unnamed-array Error was thrown) or
\* "shape" (the path indexes into a scalar, or treats an object as an array or
\* an array as an object: the code's open todo, a TypeError or a silent no-op)
Walk(root, at, status) == [root |-> root, at |-> at, status |-> status]

\* lines 315-334 of getDataByPath: descend from target by index, push or key
Descend(root, tat, p) ==
    LET target == GetAt(root, tat)
    IN IF p.isArray
       THEN IF target.t # "arr" THEN Walk(root, tat, "shape")
            ELSE IF p.hasIndex
                 THEN LET cur == Elem(target, p.index)
                          nxt == IF cur.t \in {"null", "undef"} THEN Obj(<<>>) ELSE cur
                      IN Walk(SetAt(root, tat, SetElem(target, p.index, nxt)),
                              Append(tat, IdxStep(p.index)), "ok")
                 ELSE Walk(SetAt(root, tat, Arr(Append(target.v, Obj(<<>>)))),
                           Append(tat, IdxStep(Len(target.v))), "ok")
       ELSE IF p.key # <<>>
            THEN IF target.t # "obj" THEN Walk(root, tat, "shape")
                 ELSE IF ~Truthy(Get(target, p.key))
                      THEN Walk(SetAt(root, tat, PutKey(target, p.key, Obj(<<>>))),
                                Append(tat, KeyStep(p.key)), "ok")
                      ELSE Walk(root, Append(tat, KeyStep(p.key)), "ok")
            ELSE Walk(root, tat, "ok")

\* a mutation of ResolveComponent: a missing name is not created, the walk
\* stays at the node it reached
ResolveComponent_NoCreate(root, at, component) ==
    LET p == parsePathComponent(component)
        ptr == GetAt(root, at)
    IN IF p.name # <<>>
       THEN IF ptr.t # "obj" THEN Walk(root, at, "shape")
            ELSE IF ~Truthy(Get(ptr, p.name))
                 THEN Walk(root, at, "ok")
                 ELSE Descend(root, Append(at, KeyStep(p.name)), p)
       ELSE IF p.isArray THEN Walk(root, at, "grammar")
            ELSE Descend(root, at, p)

\* lines 294-313 of getDataByPath: one component, from the node at `at`
ResolveComponent(root, at, component) ==
    LET p == parsePathComponent(component)
        ptr == GetAt(root, at)
    IN IF p.name # <<>>
       THEN IF ptr.t # "obj" THEN Walk(root, at, "shape")
            ELSE IF ~Truthy(Get(ptr, p.name))
                 THEN Descend(SetAt(root, at,
                                    PutKey(ptr, p.name,
                                           IF p.isArray THEN Arr(<<>>) ELSE Obj(<<>>))),
                              Append(at, KeyStep(p.name)), p)
                 ELSE Descend(root, Append(at, KeyStep(p.name)), p)
       ELSE IF p.isArray THEN Walk(root, at, "grammar")
            ELSE Descend(root, at, p)

RECURSIVE ResolveFrom(_, _, _)
\* the for-loop of getDataByPath over path.split('/'): '' breaks, '.' continues
ResolveFrom(root, at, components) ==
    IF components = <<>> THEN Walk(root, at, "ok")
    ELSE IF Head(components) = <<>> THEN Walk(root, at, "ok")
    ELSE IF Head(components) = <<".">> THEN ResolveFrom(root, at, Tail(components))
    ELSE LET w == ResolveComponent(root, at, Head(components))
         IN IF w.status # "ok" THEN w ELSE ResolveFrom(w.root, w.at, Tail(components))

\* getDataByPath(data, path): the document as the walk left it, the reference
\* to the resolved node, and how the walk ended
getDataByPath(data, path) == ResolveFrom(data, <<>>, Split(path, "/"))

(***************************************************************************)
(* Structural differ                                                       *)
(***************************************************************************)

\* DiffResults: hasDiff and the diffs map, an ordered sequence of
\* [path, ov, nv] with one entry per path (Object.entries order)
EmptyDiff == [hasDiff |-> FALSE, diffs |-> <<>>]

DiffPaths(diff) == [i \in 1..Len(diff.diffs) |-> diff.diffs[i].path]

\* diffs[path] = [ov, nv]
PutDiff(diffs, path, ov, nv) ==
    IF \E i \in 1..Len(diffs) : diffs[i].path = path
    THEN [i \in 1..Len(diffs) |->
            IF diffs[i].path = path THEN [path |-> path, ov |-> ov, nv |-> nv] ELSE diffs[i]]
    ELSE Append(diffs, [path |-> path, ov |-> ov, nv |-> nv])

RECURSIVE Union2(_, _)
Union2(acc, more) ==
    IF more = <<>> THEN acc
    ELSE IF \E i \in 1..Len(acc) : acc[i] = Head(more) THEN Union2(acc, Tail(more))
    ELSE Union2(Append(acc, Head(more)), Tail(more))

\* mergeArrays(arr1, arr2): the keys of both, each once, in first-seen order
mergeArrays(arr1, arr2) == Union2(Union2(<<>>, arr1), arr2)

\* a !== b, for two values that are not the same object
StrictNeq(a, b) == Rd(a) # Rd(b)

RECURSIVE computeDiff(_, _, _, _)
RECURSIVE DiffKeys(_, _, _, _, _)
RECURSIVE ArrayDiffFrom(_, _, _, _)
RECURSIVE CopyArrayDiffs(_, _, _)

\* a mutation of computeArrayDiff: only the first elements are compared
computeArrayDiff_FirstOnly(oval, nval) ==
    [hasDiff |-> ArrayDiffFrom(oval, nval, 0, 1) # <<>>,
     diffs |-> ArrayDiffFrom(oval, nval, 0, 1)]

\* computeArrayDiff(oval, nval)
computeArrayDiff(oval, nval) ==
    LET max == IF Len(oval.v) > Len(nval.v) THEN Len(oval.v) ELSE Len(nval.v)
        d == ArrayDiffFrom(oval, nval, 0, max)
    IN [hasDiff |-> d # <<>>, diffs |-> d]

\* the loop of computeArrayDiff from index i: the entries recorded
ArrayDiffFrom(oval, nval, i, max) ==
    IF i >= max THEN <<>>
    ELSE LET o == Elem(oval, i)
             n == Elem(nval, i)
             differs ==
                IF Truthy(o) /\ TypeofObject(o) /\ Truthy(n) /\ TypeofObject(n)
                THEN computeDiff(o, n, <<>>, EmptyDiff).hasDiff
                ELSE StrictNeq(o, n)
         IN (IF differs
             THEN <<[path |-> <<"[", IndexTok(i), "]">>, ov |-> o, nv |-> n]>>
             ELSE <<>>) \o ArrayDiffFrom(oval, nval, i + 1, max)

\* curdiff.diffs[prefix + okey + index] = arrdiff.diffs[index], for each index
CopyArrayDiffs(diffs, base, arrdiffs) ==
    IF arrdiffs = <<>> THEN diffs
    ELSE CopyArrayDiffs(PutDiff(diffs, base \o Head(arrdiffs).path,
                                Head(arrdiffs).ov, Head(arrdiffs).nv),
                        base, Tail(arrdiffs))

\* the for-loop of computeDiff over the merged keys
DiffKeys(oval, nval, prefix, keys, curdiff) ==
    IF keys = <<>> THEN curdiff
    ELSE LET okey == Head(keys)
             ov == Prop(oval, okey)
             nv == Prop(nval, okey)
             next ==
                IF ov.t = "arr" /\ nv.t = "arr"
                THEN LET arrdiff == computeArrayDiff(ov, nv)
                     IN IF arrdiff.hasDiff
                        THEN [hasDiff |-> TRUE,
                              diffs |-> CopyArrayDiffs(curdiff.diffs, prefix \o okey,
                                                       arrdiff.diffs)]
                        ELSE curdiff
                ELSE IF TypeofObject(ov) /\ TypeofObject(nv)
                THEN computeDiff(ov, nv, prefix \o okey, curdiff)
                ELSE IF StrictNeq(ov, nv)
                THEN [hasDiff |-> TRUE, diffs |-> PutDiff(curdiff.diffs, prefix \o okey, ov, nv)]
                ELSE curdiff
         IN DiffKeys(oval, nval, prefix, Tail(keys), next)

\* computeDiff(oval, nval, curpath, diff)
computeDiff(oval, nval, curpath, diff) ==
    LET prefix == IF curpath # <<>> THEN curpath \o <<"/">> ELSE <<>>
    IN IF oval.t = "null" /\ nval.t = "null" THEN diff
       ELSE IF oval.t = "null" \/ nval.t = "null"
            THEN [diff EXCEPT !.diffs = PutDiff(@, curpath, oval, nval)]
            ELSE DiffKeys(oval, nval, prefix,
                          mergeArrays(ObjectKeys(oval), ObjectKeys(nval)), diff)

(***************************************************************************)
(* Scope collector                                                         *)
(***************************************************************************)

\* joinScopes(...partial): '' stands for an undefined or empty part
joinScopes(partial) == Join(SelectSeq(partial, LAMBDA s : s # <<>> /\ s # <<".">>), "/")

\* s.match(/\[.*\]$/): s ends with ']' and has a '[' before it
MatchesBracketEnd(s) ==
    /\ s # <<>>
    /\ Last(s) = "]"
    /\ \E i \in 1..(Len(s) - 1) : s[i] = "["

\* s.replace(/\[.*\]$/, ''): cut from the leftmost '['
StripBracketEnd(s) ==
    IF MatchesBracketEnd(s)
    THEN SubSeq(s, 1, (CHOOSE i \in 1..Len(s) : s[i] = "[" /\ \A j \in 1..(i - 1) : s[j] # "[") - 1)
    ELSE s

RECURSIVE AddScopeLoop(_, _, _, _)
\* the while-loop of addScope: q is qScopes (its keys), path the result so far
AddScopeLoop(q, parts, path, name) ==
    IF parts = <<>> THEN [q |-> q, path |-> path]
    ELSE LET s == Join(parts, "/")
             rest == Pop(parts)
         IN IF path = <<>>
            THEN AddScopeLoop(q \cup {s} \cup
                                (IF name # <<>> THEN {Join(rest, "/") \o <<"/", "*">>} ELSE {}),
                              rest, s, name)
            ELSE IF MatchesBracketEnd(s)
                 THEN AddScopeLoop(q \cup {s, StripBracketEnd(s) \o <<"/", "*">>},
                                   rest, path, name)
                 ELSE AddScopeLoop(q \cup {s}, rest, path, name)

\* addScope(scope, name) on a collector holding q: the collector afterwards
\* and the returned path; name = <<>> for an undefined name
addScope(q, scope, name) ==
    AddScopeLoop(q,
                 SelectSeq(Split(joinScopes(<<scope, name>>), "/"),
                           LAMBDA s : s # <<>> /\ s # <<".">>),
                 <<>>, name)

\* a mutation of the comparator: among equal lengths the greater string first
ScopeBefore_TiesDescending(a, b) ==
    IF StrLen(a) < StrLen(b) THEN FALSE
    ELSE IF StrLen(a) > StrLen(b) THEN TRUE
    ELSE sortString(a, b) > 0

\* the comparator of getScopes: a sorts before b
ScopeBefore(a, b) ==
    IF StrLen(a) < StrLen(b) THEN FALSE
    ELSE IF StrLen(a) > StrLen(b) THEN TRUE
    ELSE sortString(a, b) < 0

RECURSIVE SortScopes(_)
SortScopes(q) ==
    IF q = {} THEN <<>>
    ELSE LET first == CHOOSE a \in q : \A b \in q \ {a} : ScopeBefore(a, b)
         IN <<first>> \o SortScopes(q \ {first})

\* getScopes()
getScopes(q) == SortScopes(q)

(***************************************************************************)
(* Event bus                                                               *)
(***************************************************************************)

\* handlerMap is a function from the topics that were ever registered to the
\* sequence of their listeners

\* addListener(name, listener): handlerMap afterwards
addListener(handlerMap, name, listener) ==
    [t \in DOMAIN handlerMap \cup {name} |->
        IF t = name
        THEN Append(IF name \in DOMAIN handlerMap THEN handlerMap[name] ELSE <<>>, listener)
        ELSE handlerMap[t]]

\* the function addListener(name, listener) returned, when called
removeListener(handlerMap, name, listener) ==
    [t \in DOMAIN handlerMap |->
        IF t = name THEN SelectSeq(handlerMap[t], LAMBDA fn : fn # listener)
        ELSE handlerMap[t]]

\* the inner emit(name, ...args): the calls made, in order, each with the
\* listener, the topic it is registered under and the arguments it receives
emitInner(handlerMap, name, args) ==
    IF name \notin DOMAIN handlerMap THEN <<>>
    ELSE [i \in 1..Len(handlerMap[name]) |->
            [h |-> handlerMap[name][i], reg |-> name, args |-> args]]

\* a mutation of emit: the wildcard listeners are called first
emit_WildcardFirst(handlerMap, name, args) ==
    emitInner(handlerMap, <<"*">>, <<name>> \o args)
        \o emitInner(handlerMap, name, <<name>> \o args)

\* the bus's emit(name, ...args), with listeners that leave the bus alone
emit(handlerMap, name, args) ==
    emitInner(handlerMap, name, <<name>> \o args)
        \o emitInner(handlerMap, <<"*">>, <<name>> \o args)

RECURSIVE emitAll(_, _)
\* the calls of a sequence of emissions, each a topic with the kind of its payload
emitAll(handlerMap, es) ==
    IF es = <<>> THEN <<>>
    ELSE emit(handlerMap, Head(es).topic, <<Head(es).kind>>) \o emitAll(handlerMap, Tail(es))

(***************************************************************************)
(* Document context (makeFHContext)                                        *)
(***************************************************************************)

VARIABLES
    data,         \* the object the closure constant `data` refers to
    refData,      \* ref.data
    aliased,      \* ref.data is still the object `data` (no reset() yet)
    initialData,  \* ref.initialData
    changelog,    \* ref.changelog
    updateBus,    \* handlerMap of scopedUpdateBus
    steps,        \* the number of document operations performed so far
    op,           \* the last document operation and its inputs
    emits,        \* the emissions of the last document operation, in order
    calls,        \* the listener calls of the last document operation, in order
    eventsBus,    \* handlerMap of the context's `events` bus
    eventsEmits,  \* the emissions of the last document operation on `events`
    eventsCalls   \* the calls of `events` listeners by the last document operation

ctxVars == <<data, refData, aliased, initialData, changelog, updateBus, eventsBus, steps>>
traceVars == <<op, emits, calls, eventsEmits, eventsCalls>>

\* --- bounds and input sets -------------------------------------------------

\* listeners bound to a bus at one time
MaxListeners == 2
\* document operations in one run
MaxOps == 2

KA == <<"a">>
KB == <<"b">>
KC == <<"c">>
KE == <<"e">>
KTags == <<"tags">>
Star == <<"*">>

\* { a: 1, b: { c: 2 } }
DocAB == Obj(<< <<KA, Num(1)>>, <<KB, Obj(<< <<KC, Num(2)>> >>)>> >>)

InitDocs == {DocAB}

\* scopes as callers pass them: '' and '.' are the root
RootScopes == {<<>>, <<".">>}
Scopes == RootScopes \cup {KB, <<"b", "/", "d">>}
\* the scopes of the cascade on its own: an indexed array element too
CascadeScopes == Scopes \cup {<<"b", "/", "tags", "[", "0", "]">>}
Names == {KC}
Values == {Num(2), Num(3)}
ArrayValues == {StrV("x")}
\* the objects setData merges
Patches == {Obj(<< <<KC, Num(3)>>, <<KE, Num(3)>> >>)}
\* what listeners are bound to: <<scope, name>>, name '' for a scope listener
Bindings == {<<KB, KC>>, <<KB, <<>>>>, <<Star, <<>>>>, <<<<".">>, KC>>}

\* --- the update cascade ----------------------------------------------------

\* const parts = path.split('/'); const name = parts.pop(); parts.join('/')
PathScope(path) == Join(Pop(Split(path, "/")), "/")

RECURSIVE CollectScopes(_, _)
\* the scope collector after the first loop of triggerUpdate
CollectScopes(q, paths) ==
    IF paths = <<>> THEN q
    ELSE LET scope == PathScope(Head(paths))
         IN CollectScopes(IF scope # <<>> /\ scope # <<".">>
                          THEN addScope(q, scope, <<>>).q
                          ELSE q,
                          Tail(paths))

\* one emission of the cascade: the topic and the shape of its payload
Emission(topic, kind) == [topic |-> topic, kind |-> kind]

\* triggerUpdate(diff): the emissions on scopedUpdateBus, in order
triggerUpdate_GlobalFirst(diff) ==
    IF ~diff.hasDiff THEN <<>>
    ELSE LET paths == DiffPaths(diff)
             scopes == getScopes(CollectScopes({}, paths))
         IN <<Emission(Star, "global")>>
            \o [i \in 1..Len(paths) |-> Emission(paths[i], "field")]
            \o [i \in 1..Len(scopes) |-> Emission(scopes[i], "scope")]

triggerUpdate(diff) ==
    IF ~diff.hasDiff THEN <<>>
    ELSE LET paths == DiffPaths(diff)
             scopes == getScopes(CollectScopes({}, paths))
         IN [i \in 1..Len(paths) |-> Emission(paths[i], "field")]
            \o [i \in 1..Len(scopes) |-> Emission(scopes[i], "scope")]
            \o <<Emission(Star, "global")>>

\* a mutation of Cascade: the diff is logged whether or not it has changes
Cascade_LogAlways(diff) ==
    /\ changelog' = Append(changelog, diff)
    /\ \E es \in {triggerUpdate(diff)} :
          /\ emits' = es
          /\ calls' = emitAll(updateBus, es)

\* the state change of triggerUpdate(diff): changelog, emissions, listener calls
Cascade(diff) ==
    /\ changelog' = IF diff.hasDiff THEN Append(changelog, diff) ELSE changelog
    /\ \E es \in {triggerUpdate(diff)} :
          /\ emits' = es
          /\ calls' = emitAll(updateBus, es)

\* What an update operation did: ok = FALSE when the path does not fit the
\* document's shape (it indexes into a scalar, or treats an object as an array:
\* not modelled), threw when the resolver raised its Error before the cascade,
\* doc the document it mutated, init the initial snapshot, diff what it handed
\* to triggerUpdate
Outcome(ok, threw, doc, init, diff) ==
    [ok |-> ok, threw |-> threw, doc |-> doc, init |-> init, diff |-> diff]

Unfit(doc, init) == Outcome(FALSE, FALSE, doc, init, EmptyDiff)
Threw(doc, init) == Outcome(TRUE, TRUE, doc, init, EmptyDiff)

\* ref.data is mutated in place (or replaced by the same object)
WriteRef(doc) ==
    /\ refData' = doc
    /\ data' = IF aliased THEN doc ELSE data

\* the object `data` is mutated in place
WriteData(doc) ==
    /\ data' = doc
    /\ refData' = IF aliased THEN doc ELSE refData

\* value is what the caller passed as the value or the new data, clone the
\* document handed to the global handlers: <<>> when there was no emission
Operation(name, scope, field, value, diff, threw, clone) ==
    [name |-> name, scope |-> scope, field |-> field, value |-> value, diff |-> diff,
     threw |-> threw, clone |-> clone]

\* between document operations the trace is empty
Idle ==
    /\ op' = Operation("none", <<>>, <<>>, Undef, EmptyDiff, FALSE, <<>>)
    /\ emits' = <<>>
    /\ calls' = <<>>
    /\ eventsEmits' = <<>>
    /\ eventsCalls' = <<>>

\* one more document operation
Step ==
    /\ steps < MaxOps
    /\ steps' = steps + 1

\* ref.data when triggerUpdate runs: updateControlValue has mutated the object
\* `data`, the other operations ref.data itself
LiveDocument(r, name) ==
    IF name = "updateControlValue" /\ ~aliased THEN refData ELSE r.doc

\* const clone = jsonClone(ref.data) of triggerUpdate(diff), past its early return
GlobalClone(diff, live) == IF diff.hasDiff THEN <<jsonClone(live)>> ELSE <<>>

\* the end of an update operation with outcome r: nothing is emitted on `events`
Finish(r, name, scope, field, value) ==
    /\ r.ok
    /\ Step
    /\ IF r.threw THEN changelog' = changelog /\ emits' = <<>> /\ calls' = <<>>
       ELSE Cascade(r.diff)
    /\ eventsEmits' = <<>>
    /\ eventsCalls' = <<>>
    /\ op' = Operation(name, scope, field, value, r.diff, r.threw,
                        IF r.threw THEN <<>>
                        ELSE GlobalClone(r.diff, LiveDocument(r, name)))

\* --- operations ------------------------------------------------------------

\* the registrations of a bus: <<topic, position>>
Registrations(handlerMap) ==
    UNION {{<<t, i>> : i \in 1..Len(handlerMap[t])} : t \in DOMAIN handlerMap}

\* the functions registered with a bus
Listeners(handlerMap) == {handlerMap[r[1]][r[2]] : r \in Registrations(handlerMap)}

\* a function that is not registered yet
FreshListener(handlerMap) ==
    CHOOSE h \in 1..(Cardinality(Listeners(handlerMap)) + 1) : h \notin Listeners(handlerMap)

\* bindToUpdatedScope(handler, scope, name) with a new handler function
bindToUpdatedScope(scope, name) ==
    /\ Cardinality(Registrations(updateBus)) < MaxListeners
    /\ IF scope # <<>> /\ scope # <<".">>
       THEN updateBus' = addListener(updateBus,
                                     IF name # <<>> THEN scope \o <<"/">> \o name ELSE scope,
                                     FreshListener(updateBus))
       ELSE UNCHANGED updateBus
    /\ Idle
    /\ UNCHANGED <<data, refData, aliased, initialData, changelog, eventsBus, steps>>

\* the unsubscribe function bindToUpdatedScope returned, while its handler is bound
unbindUpdatedScope(topic, handler) ==
    /\ topic \in DOMAIN updateBus
    /\ \E i \in 1..Len(updateBus[topic]) : updateBus[topic][i] = handler
    /\ updateBus' = removeListener(updateBus, topic, handler)
    /\ Idle
    /\ UNCHANGED <<data, refData, aliased, initialData, changelog, eventsBus, steps>>

\* update(name, val, scope) once getDataByPath(ref.data, scope) has walked
updateWalked(odata, w, name, val, scope, init) ==
    IF w.status = "shape" THEN Unfit(w.root, init)
    ELSE IF w.status = "grammar" THEN Threw(w.root, init)
    ELSE IF GetAt(w.root, w.at).t # "obj" THEN Unfit(w.root, init)
    ELSE LET doc == SetAt(w.root, w.at, PutKey(GetAt(w.root, w.at), name, val))
         IN Outcome(TRUE, FALSE, doc, init, computeDiff(odata, doc, scope, EmptyDiff))

\* update = setControlValue(name, val, scope) on ref.data = doc
update(doc, name, val, scope, init) ==
    updateWalked(jsonClone(doc), getDataByPath(doc, scope), name, val, scope, init)

setControlValue(name, val, scope) ==
    /\ \E r \in {update(refData, name, val, scope, initialData)} :
          /\ Finish(r, "setControlValue", scope, name, val)
          /\ WriteRef(r.doc)
    /\ UNCHANGED <<aliased, initialData, updateBus, eventsBus>>

\* ptr[name] after the array branch of updateControlValue
ArrayUpdate(cur, value, isArrRemove) ==
    LET arr == IF ~Truthy(cur) THEN <<>> ELSE cur.v
    IN IF isArrRemove
       THEN Arr(SelectSeq(arr, LAMBDA v : StrictNeq(v, value)))
       ELSE Arr(Append(arr, value))

\* the insert callbacks of updateControlValue on the resolved node
updateControlValueAt(ptr, name, value, isArray, isArrRemove) ==
    IF value.t = "undef" THEN DelKey(ptr, name)
    ELSE IF isArray THEN PutKey(ptr, name, ArrayUpdate(Get(ptr, name), value, isArrRemove))
    ELSE PutKey(ptr, name, value)

\* updateControlValue once getDataByPath(data, scope) has walked
updateControlValueWalked(odata, w, scope, name, value, isArray, isArrRemove, init) ==
    IF w.status = "shape" THEN Unfit(w.root, init)
    ELSE IF w.status = "grammar" THEN Threw(w.root, init)
    ELSE IF GetAt(w.root, w.at).t # "obj" THEN Unfit(w.root, init)
    ELSE IF /\ isArray
            /\ value.t # "undef"
            /\ Truthy(Get(GetAt(w.root, w.at), name))
            /\ Get(GetAt(w.root, w.at), name).t # "arr"
         THEN Unfit(w.root, init)
    ELSE LET doc == SetAt(w.root, w.at,
                          updateControlValueAt(GetAt(w.root, w.at), name, value,
                                               isArray, isArrRemove))
         IN Outcome(TRUE, FALSE, doc, init,
                    computeDiff(odata, doc, IF value.t = "undef" THEN scope ELSE <<>>,
                                EmptyDiff))

\* updateControlValue({scope, name, value, isArray, isArrRemove}) on the object
\* `data` = doc; value is Undef for value === undefined
updateControlValueOn(doc, scope, name, value, isArray, isArrRemove, init) ==
    updateControlValueWalked(jsonClone(doc), getDataByPath(doc, scope), scope, name, value,
                             isArray, isArrRemove, init)

updateControlValue(scope, name, value, isArray, isArrRemove) ==
    /\ \E r \in {updateControlValueOn(data, scope, name, value, isArray, isArrRemove,
                                      initialData)} :
          /\ Finish(r, "updateControlValue", scope, name,
                    [value |-> value, isArray |-> isArray, isArrRemove |-> isArrRemove])
          /\ WriteData(r.doc)
    /\ UNCHANGED <<aliased, initialData, updateBus, eventsBus>>

RECURSIVE ObjectAssign(_, _)
\* Object.assign(target, source): the target afterwards
ObjectAssign(target, pairs) ==
    IF pairs = <<>> THEN target
    ELSE ObjectAssign(PutKey(target, Head(pairs)[1], Head(pairs)[2]), Tail(pairs))

\* the insert callback of setData on the resolved node ptr
setDataAt(w, ptr, newData, scope, init) ==
    Outcome(TRUE, FALSE, SetAt(w.root, w.at, ObjectAssign(ptr, newData.v)), init,
            computeDiff(jsonClone(ptr), ObjectAssign(ptr, newData.v), scope, EmptyDiff))

\* setData(newData, scope) once getDataByPath(ref.data, scope) has walked
setDataWalked(w, newData, scope, init) ==
    IF w.status = "shape" THEN Unfit(w.root, init)
    ELSE IF w.status = "grammar" THEN Threw(w.root, init)
    ELSE IF GetAt(w.root, w.at).t # "obj" THEN Unfit(w.root, init)
    ELSE setDataAt(w, GetAt(w.root, w.at), newData, scope, init)

setData(newData, scope) ==
    /\ \E r \in {setDataWalked(getDataByPath(refData, scope), newData, scope, initialData)} :
          /\ Finish(r, "setData", scope, <<>>, newData)
          /\ WriteRef(r.doc)
    /\ UNCHANGED <<aliased, initialData, updateBus, eventsBus>>

\* getScopedData(scope): getDataByPath(ref.data, scope) without a callback
getScopedData(scope) ==
    /\ \E w \in {getDataByPath(refData, scope)} :
          /\ w.status # "shape"
          /\ Step
          /\ WriteRef(w.root)
          /\ op' = Operation("getScopedData", scope, <<>>, Undef, EmptyDiff,
                              w.status = "grammar", <<>>)
    /\ emits' = <<>>
    /\ calls' = <<>>
    /\ eventsEmits' = <<>>
    /\ eventsCalls' = <<>>
    /\ UNCHANGED <<aliased, initialData, changelog, updateBus, eventsBus>>

\* one emission on `events`: the topic and the arguments after it
EventsEmission(topic, args) == [topic |-> topic, args |-> args]

ResetTopic == <<"reset">>
SetInitialTopic == <<"set-initial">>
UpdatedTopic == <<"updated">>

\* reset(): events.emit('reset', jsonClone(ref.data))
reset ==
    /\ Step
    /\ refData' = jsonClone(initialData)
    /\ aliased' = FALSE
    /\ op' = Operation("reset", <<>>, <<>>, Undef, EmptyDiff, FALSE, <<>>)
    /\ emits' = <<>>
    /\ calls' = <<>>
    /\ \E doc \in {jsonClone(jsonClone(initialData))} :
          /\ eventsEmits' = <<EventsEmission(ResetTopic, <<doc>>)>>
          /\ eventsCalls' = emit(eventsBus, ResetTopic, <<doc>>)
    /\ UNCHANGED <<data, initialData, changelog, updateBus, eventsBus>>

\* the insert callback of resetControl: w the walk of ref.data, iw the walk of
\* ref.initialData, cur the object `data` when it is no longer ref.data
resetControlAt(w, iw, name, isAliased, cur) ==
    IF iw.status = "shape" THEN Unfit(w.root, iw.root)
    ELSE IF iw.status = "grammar" THEN Threw(w.root, iw.root)
    ELSE IF GetAt(iw.root, iw.at).t # "obj" THEN Unfit(w.root, iw.root)
    ELSE IF Get(GetAt(iw.root, iw.at), name).t \in {"obj", "arr"} THEN Unfit(w.root, iw.root)
    ELSE LET doc == SetAt(w.root, w.at,
                          PutKey(GetAt(w.root, w.at), name, Get(GetAt(iw.root, iw.at), name)))
         IN Outcome(TRUE, FALSE, doc, iw.root,
                    computeDiff(jsonClone(w.root), IF isAliased THEN doc ELSE cur,
                                <<>>, EmptyDiff))

\* resetControl(name, scope) once getDataByPath(ref.data, scope) has walked; the
\* field's initial value is taken to be a scalar or undefined (an object would
\* become shared by both documents)
resetControlWalked(w, name, scope, init, isAliased, cur) ==
    IF w.status = "shape" THEN Unfit(w.root, init)
    ELSE IF w.status = "grammar" THEN Threw(w.root, init)
    ELSE IF GetAt(w.root, w.at).t # "obj" THEN Unfit(w.root, init)
    ELSE resetControlAt(w, getDataByPath(init, scope), name, isAliased, cur)

resetControl(name, scope) ==
    /\ \E r \in {resetControlWalked(getDataByPath(refData, scope), name, scope, initialData,
                                    aliased, data)} :
          /\ Finish(r, "resetControl", scope, name, Undef)
          /\ WriteRef(r.doc)
          /\ initialData' = r.init
    /\ UNCHANGED <<aliased, updateBus, eventsBus>>

\* clearChangelog()
clearChangelog ==
    /\ changelog # <<>>
    /\ changelog' = <<>>
    /\ Idle
    /\ UNCHANGED <<data, refData, aliased, initialData, updateBus, eventsBus, steps>>

\* the payload of 'set-initial'
SetInitialPayload(diff, scope) == [diff |-> diff, scope |-> scope]

\* the insert callback of setInitial on the resolved node ptr: newData is not read
setInitialAt(ptr, newData, scope) ==
    SetInitialPayload(computeDiff(jsonClone(ptr), ptr, scope, EmptyDiff), scope)

\* setInitial(newData, scope); a scope that does not resolve to an object of
\* the initial snapshot is not modelled
setInitial(newData, scope) ==
    /\ \E w \in {getDataByPath(initialData, scope)} :
          /\ w.status = "ok"
          /\ GetAt(w.root, w.at).t = "obj"
          /\ initialData' = w.root
          /\ \E payload \in {setInitialAt(GetAt(w.root, w.at), newData, scope)} :
                /\ eventsEmits' = <<EventsEmission(SetInitialTopic, <<payload>>)>>
                /\ eventsCalls' = emit(eventsBus, SetInitialTopic, <<payload>>)
    /\ Step
    /\ op' = Operation("setInitial", scope, <<>>, newData, EmptyDiff, FALSE, <<>>)
    /\ emits' = <<>>
    /\ calls' = <<>>
    /\ UNCHANGED <<data, refData, aliased, changelog, updateBus, eventsBus>>

\* the topics listeners of `events` are registered under
EventTopics == {UpdatedTopic, Star}

\* events.addListener(name, handler) with a new handler function
eventsAddListener(name) ==
    /\ Cardinality(Registrations(eventsBus)) < MaxListeners
    /\ eventsBus' = addListener(eventsBus, name, FreshListener(eventsBus))
    /\ Idle
    /\ UNCHANGED <<data, refData, aliased, initialData, changelog, updateBus, steps>>

(***************************************************************************)
(* Blur propagation (blur, bindToBlurredScope)                             *)
(***************************************************************************)

VARIABLES
    blurBus,      \* handlerMap of scopedBlurBus
    blurOp,       \* the last blur and its inputs
    blurEmits,    \* the topics the last blur emitted on, in order
    blurCalls     \* the listener calls of the last blur, in order

blurVars == <<blurBus, blurOp, blurEmits, blurCalls>>

\* a blur handler; one that stops calls evt.stopPropagation() when it has an event
Handler(id, stops) == [id |-> id, stops |-> stops]

\* the paths blur handlers are bound to ('' binds nothing)
BlurPaths == {<<>>, <<"b", "/", "c">>, <<"b", "/", "*">>, KB, Star}
BlurScopes == {<<>>, KB, <<"b", "/", "d">>}
BlurNames == {<<>>, KC}

\* the id of a handler function that is not registered yet
FreshHandlerId(handlerMap) ==
    CHOOSE n \in 1..(Cardinality(Registrations(handlerMap)) + 1) :
        \A r \in Registrations(handlerMap) : handlerMap[r[1]][r[2]].id # n

BlurOperation(name, scope, field, evt, stopped) ==
    [name |-> name, scope |-> scope, field |-> field, evt |-> evt, stopped |-> stopped]

BlurIdle ==
    /\ blurOp' = BlurOperation("none", <<>>, <<>>, FALSE, FALSE)
    /\ blurEmits' = <<>>
    /\ blurCalls' = <<>>

\* bindToBlurredScope(path, handler) with a new handler function
bindToBlurredScope(path, stops) ==
    /\ Cardinality(Registrations(blurBus)) < MaxListeners
    /\ blurBus' = IF path = <<>> THEN blurBus
                  ELSE addListener(blurBus, path, Handler(FreshHandlerId(blurBus), stops))
    /\ BlurIdle

\* the unsubscribe function bindToBlurredScope returned, while its handler is bound
unbindBlurredScope(topic, pos) ==
    /\ topic \in DOMAIN blurBus
    /\ pos \in 1..Len(blurBus[topic])
    /\ blurBus' = removeListener(blurBus, topic, blurBus[topic][pos])
    /\ BlurIdle

\* the progress of a blur: the topics emitted on, the calls made and whether
\* evt.isPropagationStopped() is true by now
BlurProgress(emitted, called, stopped) ==
    [emits |-> emitted, calls |-> called, stopped |-> stopped]

\* the event argument of a blur handler
EvtArg(hasEvt) == IF hasEvt THEN "evt" ELSE "null"

\* scopedBlurBus.emit(topic, evt, arg) and the handlers' stopPropagation calls
blurEmitted(acc, topic, cs, hasEvt) ==
    BlurProgress(Append(acc.emits, topic), acc.calls \o cs,
                 acc.stopped \/ (hasEvt /\ \E i \in 1..Len(cs) : cs[i].h.stops))

blurEmit(handlerMap, topic, arg, hasEvt, acc) ==
    blurEmitted(acc, topic, emit(handlerMap, topic, <<EvtArg(hasEvt), arg>>), hasEvt)

RECURSIVE blurLoop(_, _, _, _, _)
\* for (const s of qscopes) { if (stopped) break; emit(s, evt, path) }
blurLoop(handlerMap, qscopes, path, hasEvt, acc) ==
    IF qscopes = <<>> \/ acc.stopped THEN acc
    ELSE blurLoop(handlerMap, Tail(qscopes), path, hasEvt,
                  blurEmit(handlerMap, Head(qscopes), path, hasEvt, acc))

\* if (!stopped) emit('*', evt, scope)
blurWildcard(handlerMap, scope, hasEvt, acc) ==
    IF acc.stopped THEN acc ELSE blurEmit(handlerMap, <<"*">>, scope, hasEvt, acc)

\* blur once the scope collector holds the blurred path
blurCollected(handlerMap, coll, scope, hasEvt) ==
    blurWildcard(handlerMap, scope, hasEvt,
                 blurLoop(handlerMap, getScopes(coll.q), coll.path, hasEvt,
                          BlurProgress(<<>>, <<>>, FALSE)))

\* blur(scope, name, evt): name '' when only a scope is blurred
blur(scope, name, hasEvt) ==
    /\ \E r \in {blurCollected(blurBus, addScope({}, scope, name), scope, hasEvt)} :
          /\ blurEmits' = r.emits
          /\ blurCalls' = r.calls
          /\ blurOp' = BlurOperation("blur", scope, name, hasEvt, r.stopped)
    /\ UNCHANGED blurBus

InitBlur ==
    /\ blurBus = <<>>
    /\ blurOp = BlurOperation("none", <<>>, <<>>, FALSE, FALSE)
    /\ blurEmits = <<>>
    /\ blurCalls = <<>>

(***************************************************************************)
(* A bus of its own (makeEventBus)                                         *)
(***************************************************************************)

VARIABLES
    bus,          \* handlerMap of the bus
    registered,   \* every addListener call so far, in order, and whether its
                  \* registration is still in force
    busOp,        \* the last bus operation and its inputs
    busCalls      \* the listener calls of the last emit, in order

busVars == <<bus, registered, busOp, busCalls>>

\* addListener calls in one run
MaxRegistrations == 3

BusTopics == {KA, KB, Star}
BusListeners == {1, 2}
BusArgs == {"p", "q"}

BusOperation(name, topic, arg) == [name |-> name, topic |-> topic, arg |-> arg]

\* bus.addListener(name, listener)
busAddListener(name, listener) ==
    /\ Len(registered) < MaxRegistrations
    /\ bus' = addListener(bus, name, listener)
    /\ registered' = Append(registered, [name |-> name, listener |-> listener, active |-> TRUE])
    /\ busOp' = BusOperation("addListener", name, "")
    /\ busCalls' = <<>>

\* the unsubscribe function the k-th addListener call returned
busUnsubscribe(k) ==
    /\ k \in 1..Len(registered)
    /\ bus' = removeListener(bus, registered[k].name, registered[k].listener)
    /\ registered' = [i \in 1..Len(registered) |->
                        IF /\ registered[i].name = registered[k].name
                           /\ registered[i].listener = registered[k].listener
                        THEN [registered[i] EXCEPT !.active = FALSE]
                        ELSE registered[i]]
    /\ busOp' = BusOperation("unsubscribe", registered[k].name, "")
    /\ busCalls' = <<>>

\* bus.emit(name, arg)
busEmit(name, arg) ==
    /\ busCalls' = emit(bus, name, <<arg>>)
    /\ busOp' = BusOperation("emit", name, arg)
    /\ UNCHANGED <<bus, registered>>

\* the listener was called in the calls
Called(cs, listener) == \E i \in 1..Len(cs) : cs[i].h = listener

\* the bus after the listener's body ran the unsubscribe function of the k-th
\* addListener call, when the listener was called at all
UnsubscribedBy(handlerMap, cs, listener, k) ==
    IF Called(cs, listener)
    THEN removeListener(handlerMap, registered[k].name, registered[k].listener)
    ELSE handlerMap

\* bus.emit(name, arg) while the body of `listener` calls the unsubscribe
\* function the k-th addListener call returned: forEach walks the array that
\* handlerMap[name] held when the pass began, the pass over '*' begins after
\* the pass over name has ended
busEmitUnsubscribing(name, arg, listener, k) ==
    /\ k \in 1..Len(registered)
    /\ LET first == emitInner(bus, name, <<name, arg>>)
           between == UnsubscribedBy(bus, first, listener, k)
           second == emitInner(between, Star, <<name, arg>>)
           final == UnsubscribedBy(between, second, listener, k)
       IN /\ busCalls' = first \o second
          /\ bus' = final
          /\ registered' =
                IF Called(first \o second, listener)
                THEN [i \in 1..Len(registered) |->
                        IF /\ registered[i].name = registered[k].name
                           /\ registered[i].listener = registered[k].listener
                        THEN [registered[i] EXCEPT !.active = FALSE]
                        ELSE registered[i]]
                ELSE registered
    /\ busOp' = BusOperation("emit", name, arg)

InitBus ==
    /\ bus = <<>>
    /\ registered = <<>>
    /\ busOp = BusOperation("none", <<>>, "")
    /\ busCalls = <<>>

(***************************************************************************)
(* Action store (ActionStoreImpl) and standardOpsReducer                   *)
(***************************************************************************)

VARIABLES
    storeState,   \* this.state
    reducers,     \* this.reducers: "std" is standardOpsReducer, "tag" a reducer
                  \* of the application
    storeOp,      \* the last store operation and its inputs
    storeEmits    \* the topics the last dispatch emitted on this.events, in order

storeVars == <<storeState, reducers, storeOp, storeEmits>>

\* reducers in the store's list
MaxReducers == 2

KN == <<"n">>
KT == <<"t">>
InnerEventsKey == <<"__innerEvents">>
ChangedKeysKey == <<"__changedKeys">>
StdOpsType == <<"std-ops">>
TagType == <<"tag", ":", "x">>

\* { a: 1, n: { a: 1 } }
StoreDoc == Obj(<< <<KA, Num(1)>>, <<KN, Obj(<< <<KA, Num(1)>> >>)>> >>)

\* an action: a field the caller left out is undefined
Action(type, path, customOp, remove, append, set, increment, value, events) ==
    [type |-> type, path |-> path, customOp |-> customOp, remove |-> remove,
     append |-> append, set |-> set, increment |-> increment, value |-> value,
     events |-> events]

\* a customOp is the patch it returns
StdMetas ==
    { <<Undef, Arr(<<KE>>), Undef, Undef, Undef>>,
      <<Undef, Arr(<<KA>>), Undef, Undef, Undef>>,
      <<Undef, Undef, Obj(<< <<KA, Num(5)>>, <<KE, Num(5)>> >>), Undef, Undef>>,
      <<Undef, Undef, Undef, Obj(<< <<KA, Num(5)>> >>), Undef>>,
      <<Undef, Undef, Undef, Obj(<< <<KA, Num(1)>> >>), Undef>>,
      <<Undef, Undef, Undef, Undef, Obj(<< <<KA, Num(1)>> >>)>>,
      <<Obj(<< <<KA, Num(5)>> >>), Arr(<<KA>>), Undef, Obj(<< <<KE, Num(5)>> >>), Undef>>,
      <<Obj(<< <<KE, Undef>>, <<KA, Num(1)>> >>), Undef, Undef, Undef, Undef>>,
      <<Obj(<<>>), Undef, Undef, Obj(<< <<KA, Num(5)>> >>), Undef>> }

StdPaths == {Undef, StrV(KN)}

StdActions ==
    {Action(StdOpsType, p, m[1], m[2], m[3], m[4], m[5], Undef, Undef) :
        p \in StdPaths, m \in StdMetas}

\* actions of the application's own reducer: the value it stores under t and
\* the inner events it reports
TagActions ==
    { Action(TagType, Undef, Undef, Undef, Undef, Undef, Undef, Num(1),
             Arr(<<StrV(<<"x">>), StrV(<<"y">>), StrV(<<"x">>)>>)) }

Actions == StdActions \cup TagActions

\* `std-ops:change:${path}:${key}`, `std-ops:change:${path}`, 'std-ops:change'
ChangeKeyEvent(path, key) == <<"std-ops", ":", "change", ":">> \o path \o <<":">> \o key
ChangePathEvent(path) == <<"std-ops", ":", "change", ":">> \o path
ChangeEvent == <<"std-ops", ":", "change">>

\* what a reducer did: the value it returned and its argument afterwards
Reduced(ret, arg) == [ret |-> ret, arg |-> arg]

\* the bookkeeping of standardOpsReducer: curVals, the keys of newKeys in
\* insertion order, and the counter changed
StdAcc(curVals, newKeys, changed) ==
    [curVals |-> curVals, newKeys |-> newKeys, changed |-> changed]

\* newKeys[key] = true
AddKey(newKeys, key) ==
    IF \E i \in 1..Len(newKeys) : newKeys[i] = key THEN newKeys ELSE Append(newKeys, key)

\* the entries of an operation field, none when the field is left out
Entries(field) == IF field.t = "undef" THEN <<>> ELSE field.v

RECURSIVE removeKeys(_, _)
\* if (remove) for (const key of remove) ...
removeKeys(acc, keys) ==
    IF keys = <<>> THEN acc
    ELSE removeKeys(IF ~IsUndefined(Get(acc.curVals, Head(keys)))
                    THEN StdAcc(PutKey(acc.curVals, Head(keys), Undef),
                                AddKey(acc.newKeys, Head(keys)), acc.changed + 1)
                    ELSE acc,
                    Tail(keys))

RECURSIVE appendKeys_Overwrite(_, _)
\* a mutation of appendKeys: present keys are overwritten too
appendKeys_Overwrite(acc, pairs) ==
    IF pairs = <<>> THEN acc
    ELSE appendKeys_Overwrite(StdAcc(PutKey(acc.curVals, Head(pairs)[1], Head(pairs)[2]),
                                     AddKey(acc.newKeys, Head(pairs)[1]), acc.changed + 1),
                              Tail(pairs))

RECURSIVE appendKeys(_, _)
\* if (append) for (const key in append) ...
appendKeys(acc, pairs) ==
    IF pairs = <<>> THEN acc
    ELSE appendKeys(IF IsUndefined(Get(acc.curVals, Head(pairs)[1]))
                    THEN StdAcc(PutKey(acc.curVals, Head(pairs)[1], Head(pairs)[2]),
                                AddKey(acc.newKeys, Head(pairs)[1]), acc.changed + 1)
                    ELSE acc,
                    Tail(pairs))

RECURSIVE setKeys(_, _)
\* if (set) for (const key in set) ...
setKeys(acc, pairs) ==
    IF pairs = <<>> THEN acc
    ELSE setKeys(StdAcc(PutKey(acc.curVals, Head(pairs)[1], Head(pairs)[2]),
                        AddKey(acc.newKeys, Head(pairs)[1]), acc.changed + 1),
                 Tail(pairs))

RECURSIVE incrementKeys(_, _)
\* if (increment) for (const key in increment) ...: newKeys is left alone
incrementKeys(acc, pairs) ==
    IF pairs = <<>> THEN acc
    ELSE incrementKeys(IF Get(acc.curVals, Head(pairs)[1]).t = "num"
                       THEN StdAcc(PutKey(acc.curVals, Head(pairs)[1],
                                          Num(Get(acc.curVals, Head(pairs)[1]).v
                                              + Head(pairs)[2].v)),
                                   acc.newKeys, acc.changed + 1)
                       ELSE acc,
                       Tail(pairs))

\* lines 231-267: remove, append, set, increment on curVals
stdOperations(action, curVals) ==
    incrementKeys(
        setKeys(
            appendKeys(
                removeKeys(StdAcc(curVals, <<>>, 0), Entries(action.remove)),
                Entries(action.append)),
            Entries(action.set)),
        Entries(action.increment))

RECURSIVE writeKeys(_, _, _)
\* for (const key in newKeys) { delete ptr[key] or ptr[key] = curVals[key] }
writeKeys(ptr, curVals, keys) ==
    IF keys = <<>> THEN ptr
    ELSE writeKeys(IF IsUndefined(Get(curVals, Head(keys)))
                   THEN DelKey(ptr, Head(keys))
                   ELSE PutKey(ptr, Head(keys), Get(curVals, Head(keys))),
                   curVals, Tail(keys))

RECURSIVE applyPatch(_, _)
\* for (const key in subgraph) { delete ptr[key] or ptr[key] = subgraph[key] }
applyPatch(ptr, pairs) ==
    IF pairs = <<>> THEN ptr
    ELSE applyPatch(IF IsUndefined(Head(pairs)[2])
                    THEN DelKey(ptr, Head(pairs)[1])
                    ELSE PutKey(ptr, Head(pairs)[1], Head(pairs)[2]),
                    Tail(pairs))

\* the per-key events followed by the two summary events
ChangeEvents(path, keys) ==
    [i \in 1..Len(keys) |-> StrV(ChangeKeyEvent(path, keys[i]))]
        \o <<StrV(ChangePathEvent(path)), StrV(ChangeEvent)>>

\* nstate with __innerEvents and __changedKeys
WithTransients(nstate, events, keys) ==
    PutKey(PutKey(nstate, InnerEventsKey, Arr(events)),
           ChangedKeysKey, Arr([i \in 1..Len(keys) |-> StrV(keys[i])]))

\* the customOp branch once getDataByPath(nstate, path) has walked the copy
customOpWalked(state, path, patch, w) ==
    IF patch = <<>> THEN Reduced(Undef, state)
    ELSE Reduced(WithTransients(SetAt(w.root, w.at, applyPatch(GetAt(w.root, w.at), patch)),
                                ChangeEvents(path, [i \in 1..Len(patch) |-> patch[i][1]]),
                                [i \in 1..Len(patch) |-> patch[i][1]]),
                 state)

\* lines 269-285 once getDataByPath(nstate, path) has walked the copy
stdWrite(state, path, acc, w) ==
    Reduced(WithTransients(Spread(SetAt(w.root, w.at,
                                        writeKeys(GetAt(w.root, w.at), acc.curVals,
                                                  acc.newKeys))),
                           ChangeEvents(path, acc.newKeys), acc.newKeys),
            state)

\* lines 231-285
stdBranch(state, path, acc) ==
    IF acc.changed = 0 THEN Reduced(Undef, state)
    ELSE stdWrite(state, path, acc, getDataByPath(Spread(state), path))

\* a mutation of stdOpsWalked: customOp does not keep the other operations out
stdOpsWalked_NoEarlyReturn(action, path, w) ==
    IF w.status # "ok" \/ GetAt(w.root, w.at).t # "obj" THEN Reduced(Undef, w.root)
    ELSE stdBranch(w.root, path,
                   stdOperations(action,
                                 Spread(IF action.customOp.t # "undef"
                                        THEN applyPatch(GetAt(w.root, w.at),
                                                        action.customOp.v)
                                        ELSE GetAt(w.root, w.at))))

\* standardOpsReducer once getDataByPath(state, path) has walked (line 200);
\* a path that does not resolve to an object is not modelled
stdOpsWalked(action, path, w) ==
    IF w.status # "ok" \/ GetAt(w.root, w.at).t # "obj" THEN Reduced(Undef, w.root)
    ELSE IF action.customOp.t # "undef"
         THEN customOpWalked(w.root, path, action.customOp.v,
                             getDataByPath(Spread(w.root), path))
         ELSE stdBranch(w.root, path, stdOperations(action, Spread(GetAt(w.root, w.at))))

\* const { path = '.' } = action
PathOf(action) == IF action.path.t = "undef" THEN <<".">> ELSE action.path.v

standardOpsReducer(action, state) ==
    IF action.type # StdOpsType THEN Reduced(Undef, state)
    ELSE stdOpsWalked(action, PathOf(action), getDataByPath(state, PathOf(action)))

\* a reducer of the application: on 'tag:x' it stores action.value under t and
\* reports action.events after the inner events it finds; it signals no change
\* when t already holds the value
tagReducer(action, state) ==
    IF action.type # TagType \/ Get(state, KT) = action.value THEN Reduced(Undef, state)
    ELSE Reduced(PutKey(PutKey(Spread(state), KT, action.value), InnerEventsKey,
                        Arr(Entries(Get(state, InnerEventsKey)) \o Entries(action.events))),
                 state)

\* another reducer of the application: on the synthetic 'state-reset' action it
\* reports the inner event 'reset'
resetReducer(action, state) ==
    IF action.type # <<"state-reset">> THEN Reduced(Undef, state)
    ELSE Reduced(PutKey(Spread(state), InnerEventsKey, Arr(<<StrV(<<"reset">>)>>)), state)

Reduce(reducer, action, state) ==
    IF reducer = "std" THEN standardOpsReducer(action, state)
    ELSE IF reducer = "reset" THEN resetReducer(action, state)
    ELSE tagReducer(action, state)

RECURSIVE applyReducers(_, _, _, _)
\* applyReducers(action, ostate) over the reducers rs: the final nstate, and
\* whether it is another object than ostate
applyReducers(rs, action, nstate, changed) ==
    IF rs = <<>> THEN [state |-> nstate, changed |-> changed]
    ELSE LET r == Reduce(Head(rs), action, nstate)
         IN IF Truthy(r.ret)
            THEN applyReducers(Tail(rs), action, r.ret, TRUE)
            ELSE applyReducers(Tail(rs), action, r.arg, changed)

RECURSIVE Dedup(_, _)
\* innerEvents.forEach((ievt) => { if (sent[ievt]) return; sent[ievt] = true; ... })
Dedup(events, sent) ==
    IF events = <<>> THEN <<>>
    ELSE IF Head(events) \in sent THEN Dedup(Tail(events), sent)
    ELSE <<Head(events)>> \o Dedup(Tail(events), sent \cup {Head(events)})

RECURSIVE CascadeLevels_ShortestFirst(_)
\* a mutation of CascadeLevels: the shortest topic is emitted first
CascadeLevels_ShortestFirst(levels) ==
    IF levels = <<>> THEN <<>>
    ELSE CascadeLevels_ShortestFirst(Pop(levels)) \o <<Join(levels, ":")>>

RECURSIVE CascadeLevels(_)
\* while (levels.length > 0) { evt = levels.join(':'); levels.pop(); emit(evt) }
CascadeLevels(levels) ==
    IF levels = <<>> THEN <<>>
    ELSE <<Join(levels, ":")>> \o CascadeLevels(Pop(levels))

\* cascadeEmit(event, action, state, meta): the topics emitted on, in order
cascadeEmit(event) == CascadeLevels(Split(event, ":"))

\* the strings of an array of strings
Strings(arr) == [i \in 1..Len(arr) |-> arr[i].v]

\* nstate.__innerEvents ?? [] and nstate.__changedKeys ?? []
InnerEventsOf(nstate) == Strings(Entries(Get(nstate, InnerEventsKey)))
ChangedKeysOf(nstate) == Strings(Entries(Get(nstate, ChangedKeysKey)))

\* the topics a committing dispatch emits on, in order
dispatchEmits(action, innerEvents) ==
    [i \in 1..Len(Dedup(innerEvents, {})) |->
        <<"action", ":">> \o Dedup(innerEvents, {})[i]]
        \o cascadeEmit(<<"action", ":">> \o action.type)

\* arg is the argument of resetState and updateState
StoreOperation(name, action, before, replaced, innerEvents, changedKeys, arg) ==
    [name |-> name, action |-> action, before |-> before, replaced |-> replaced,
     innerEvents |-> innerEvents, changedKeys |-> changedKeys, arg |-> arg]

NoAction == Action(<<>>, Undef, Undef, Undef, Undef, Undef, Undef, Undef, Undef)

\* dispatch(action)
dispatch(action) ==
    /\ \E r \in {applyReducers(reducers, action, jsonClone(storeState), FALSE)} :
          IF r.changed
          THEN /\ storeState' = Spread(DelKey(DelKey(r.state, InnerEventsKey), ChangedKeysKey))
               /\ storeEmits' = dispatchEmits(action, InnerEventsOf(r.state))
               /\ storeOp' = StoreOperation("dispatch", action, storeState, TRUE,
                                            InnerEventsOf(r.state), ChangedKeysOf(r.state),
                                            Undef)
          ELSE /\ storeState' = storeState
               /\ storeEmits' = <<>>
               /\ storeOp' = StoreOperation("dispatch", action, storeState, FALSE, <<>>, <<>>, Undef)
    /\ UNCHANGED reducers

\* appendReducer(reducer)
appendReducer(reducer) ==
    /\ Len(reducers) < MaxReducers
    /\ reducers' = Append(reducers, reducer)
    /\ storeOp' = StoreOperation("appendReducer", NoAction, storeState, FALSE, <<>>, <<>>, Undef)
    /\ storeEmits' = <<>>
    /\ UNCHANGED storeState

\* prependReducer(reducer)
prependReducer(reducer) ==
    /\ Len(reducers) < MaxReducers
    /\ reducers' = <<reducer>> \o reducers
    /\ storeOp' = StoreOperation("prependReducer", NoAction, storeState, FALSE, <<>>, <<>>, Undef)
    /\ storeEmits' = <<>>
    /\ UNCHANGED storeState

StateResetType == <<"state-reset">>

\* the synthetic action { type: 'state-reset' }
StateResetAction ==
    Action(StateResetType, Undef, Undef, Undef, Undef, Undef, Undef, Undef, Undef)

\* the states resetState is given and the partial states updateState merges
ResetStates == {Obj(<< <<KA, Num(7)>> >>), StoreDoc}
PartialStates == {Obj(<< <<KA, Num(7)>> >>), Obj(<< <<KE, Num(1)>> >>)}

\* resetState(state): the reducers run on this.state, the argument is not read
resetState(state) ==
    /\ storeState' = applyReducers(reducers, StateResetAction, storeState, FALSE).state
    /\ storeEmits' = <<StateResetType>>
    /\ storeOp' = StoreOperation("resetState", StateResetAction, storeState, FALSE,
                                 <<>>, <<>>, state)
    /\ UNCHANGED reducers

\* updateState(p): the reducers run on { ...this.state, ...p }
updateState(p) ==
    /\ storeState' = applyReducers(reducers, StateResetAction,
                                   ObjectAssign(Spread(storeState), p.v), FALSE).state
    /\ storeEmits' = <<StateResetType>>
    /\ storeOp' = StoreOperation("updateState", StateResetAction, storeState, FALSE,
                                 <<>>, <<>>, p)
    /\ UNCHANGED reducers

\* --- a handler that dispatches ------------------------------------------------

VARIABLES
    storeHandler  \* <<what the handler of the last dispatch met>>, <<>> when no
                  \* handler ran: seen is getState() when it ran, payload the
                  \* state in its event payload, inner the action it dispatched,
                  \* committed whether that dispatch replaced the state, after
                  \* getState() when that dispatch returned

reentryVars == <<storeHandler>>

HandlerRun(seen, payload, inner, committed, after) ==
    [seen |-> seen, payload |-> payload, inner |-> inner, committed |-> committed,
     after |-> after]

\* the topic the handler is registered under: `action:${action.type}`
HandlerTopic(action) == <<"action", ":">> \o action.type

\* the emissions es of the outer dispatch with those of the inner dispatch
\* right after the emission that called the handler
Interleave(es, topic, inner) ==
    LET k == CHOOSE i \in 1..Len(es) : es[i] = topic /\ \A j \in 1..(i - 1) : es[j] # topic
    IN SubSeq(es, 1, k) \o inner \o SubSeq(es, k + 1, Len(es))

\* dispatch(action) with one handler on `action:${action.type}` that reads
\* getState() and dispatches inner, an action of another type
dispatchWithHandler(action, inner) ==
    /\ action.type # inner.type
    /\ \E r \in {applyReducers(reducers, action, jsonClone(storeState), FALSE)} :
          IF r.changed
          THEN \E nstate \in {DelKey(DelKey(r.state, InnerEventsKey), ChangedKeysKey)},
                  ri \in {applyReducers(reducers, inner, jsonClone(storeState), FALSE)} :
                  \E istate \in {IF ri.changed
                                  THEN Spread(DelKey(DelKey(ri.state, InnerEventsKey),
                                                     ChangedKeysKey))
                                  ELSE storeState} :
                     /\ storeHandler' = <<HandlerRun(Spread(storeState), nstate, inner,
                                                      ri.changed, Spread(istate))>>
                     /\ storeState' = Spread(nstate)
                     /\ storeEmits' =
                            Interleave(dispatchEmits(action, InnerEventsOf(r.state)),
                                       HandlerTopic(action),
                                       IF ri.changed
                                       THEN dispatchEmits(inner, InnerEventsOf(ri.state))
                                       ELSE <<>>)
                     /\ storeOp' = StoreOperation("dispatch", action, storeState, TRUE,
                                                  InnerEventsOf(r.state),
                                                  ChangedKeysOf(r.state), Undef)
          ELSE /\ storeHandler' = <<>>
               /\ storeState' = storeState
               /\ storeEmits' = <<>>
               /\ storeOp' = StoreOperation("dispatch", action, storeState, FALSE, <<>>, <<>>, Undef)
    /\ UNCHANGED reducers

\* no handler has run
InitNoHandler == storeHandler = <<>>

\* new ActionStoreImpl(state): this.state = jsonClone(state), no reducers
InitStore ==
    /\ storeState = jsonClone(StoreDoc)
    /\ reducers = <<>>
    /\ storeOp = StoreOperation("none", NoAction, storeState, FALSE, <<>>, <<>>, Undef)
    /\ storeEmits = <<>>

(***************************************************************************)
(* The differ on its own (computeDiff)                                     *)
(***************************************************************************)

VARIABLES
    diffArgs,     \* the two documents handed to computeDiff, <<>> when none
    diffResult    \* <<the DiffResults it returned>>, <<>> before the call

diffVars == <<diffArgs, diffResult>>

\* the leaf values of the documents diffed
Leaves == {Num(1), Num(2), Null}

\* { a: x, b: { c: y } }, the same with the keys in the other order,
\* { tags: [x, { c: y }] }, { tags: [x] } and { a: x, b: null }
DiffDocs ==
    {Obj(<< <<KA, x>>, <<KB, Obj(<< <<KC, y>> >>)>> >>) : x, y \in Leaves}
        \cup {Obj(<< <<KB, Obj(<< <<KC, y>> >>)>>, <<KA, x>> >>) : x, y \in Leaves}
        \cup {Obj(<< <<KTags, Arr(<<x, Obj(<< <<KC, y>> >>)>>)>> >>) : x, y \in Leaves}
        \cup {Obj(<< <<KTags, Arr(<<x>>)>> >>) : x \in Leaves}
        \cup {Obj(<< <<KA, x>>, <<KB, Null>> >>) : x \in Leaves}

\* computeDiff(oval, nval) on the two documents
diffDocuments ==
    /\ diffArgs # <<>>
    /\ diffResult = <<>>
    /\ diffResult' = <<computeDiff(diffArgs[1], diffArgs[2], <<>>, EmptyDiff)>>
    /\ UNCHANGED diffArgs

\* no call of the differ on its own
InitNoDiff ==
    /\ diffArgs = <<>>
    /\ diffResult = <<>>

\* two documents to diff
InitDiffArgs ==
    /\ diffArgs \in DiffDocs \X DiffDocs
    /\ diffResult = <<>>

(***************************************************************************)
(* The path resolver on its own (getDataByPath)                            *)
(***************************************************************************)

VARIABLES
    resolveDoc,   \* the document the paths are resolved on
    resolveOp,    \* the last call: its path, the document before it, the
                  \* reference and status it ended with, and the call before it
    resolves      \* number of calls made

resolveVars == <<resolveDoc, resolveOp, resolves>>

MaxResolves == 2

\* {}, { a: { b: {} } }, { a: 1, b: { c: 2 } } and { a: { d: 1 } }
ResolveDocs ==
    {Obj(<<>>),
     Obj(<< <<KA, Obj(<< <<KB, Obj(<<>>)>> >>)>> >>),
     DocAB,
     Obj(<< <<KA, Obj(<< <<<<"d">>, Num(1)>> >>)>> >>)}

\* 'a/b/c', 'a/b', 'b/d', 'a//b', '/a/b', './a/b', 'a/b/', 'd/[0]', 'd/[]',
\* '[0]' and 'tags[0]'
ResolvePaths ==
    {<<"a", "/", "b", "/", "c">>, <<"a", "/", "b">>, <<"b", "/", "d">>,
     <<"a", "/", "/", "b">>, <<"/", "a", "/", "b">>, <<".", "/", "a", "/", "b">>,
     <<"a", "/", "b", "/">>, <<"d", "/", "[", "0", "]">>, <<"d", "/", "[", "]">>,
     <<"[", "0", "]">>, <<"tags", "[", "0", "]">>}

ResolveCall(path, before, w, prev) ==
    [path |-> path, before |-> before, at |-> w.at, status |-> w.status, prev |-> prev]

\* getDataByPath(resolveDoc, path), without a callback
resolvePath(path) ==
    /\ resolves < MaxResolves
    /\ LET w == getDataByPath(resolveDoc, path)
       IN /\ resolveDoc' = w.root
          /\ resolveOp' = ResolveCall(path, resolveDoc, w,
                                      IF resolves = 0 THEN <<>>
                                      ELSE <<[path |-> resolveOp.path, at |-> resolveOp.at,
                                              status |-> resolveOp.status]>>)
    /\ resolves' = resolves + 1

\* no call of the resolver on its own
InitNoResolve ==
    /\ resolveDoc = Obj(<<>>)
    /\ resolveOp = ResolveCall(<<>>, Obj(<<>>), Walk(Obj(<<>>), <<>>, "ok"), <<>>)
    /\ resolves = 0

\* a document to resolve paths on
InitResolveDoc ==
    /\ resolveDoc \in ResolveDocs
    /\ resolveOp = ResolveCall(<<>>, resolveDoc, Walk(resolveDoc, <<>>, "ok"), <<>>)
    /\ resolves = 0

(***************************************************************************)
(* The scope collector on its own (makeScopeCollector)                     *)
(***************************************************************************)

VARIABLES
    qScopes,      \* the keys of the collector's qScopes
    collectOp,    \* the last addScope: its arguments and the path it returned
    adds          \* number of addScope calls made

collectVars == <<qScopes, collectOp, adds>>

MaxAdds == 2

\* the (scope, name) pairs added; name = <<>> for an undefined name
ScopeArgs ==
    {<< <<"contact", "/", "email">>, <<"primary">> >>,
     << <<"contact", "/", "phone">>, <<"x">> >>,
     << <<"contact">>, <<>> >>,
     << <<"b">>, <<>> >>,
     << <<"a">>, <<"b">> >>,
     << <<"a">>, <<"c">> >>,
     << <<".">>, <<"c">> >>,
     << <<"b", "/", "tags", "[", "0", "]">>, <<>> >>,
     << <<"b", "/", "tags", "[", "0", "]">>, <<"c">> >>,
     << <<"tags", "[", "0", "]", "/", "b">>, <<>> >>,
     << <<"a", "[", "0", "]", "/", "b", "[", "1", "]">>, <<"c">> >>}

CollectCall(scope, name, path) == [scope |-> scope, name |-> name, path |-> path]

\* addScope(scope, name) on the collector
collectorAddScope(scope, name) ==
    /\ adds < MaxAdds
    /\ LET r == addScope(qScopes, scope, name)
       IN /\ qScopes' = r.q
          /\ collectOp' = CollectCall(scope, name, r.path)
    /\ adds' = adds + 1

\* a new collector
InitCollector ==
    /\ qScopes = {}
    /\ collectOp = CollectCall(<<>>, <<>>, <<>>)
    /\ adds = 0

(***************************************************************************)
(* Specifications                                                          *)
(***************************************************************************)

InitCtx ==
    /\ data \in InitDocs
    /\ refData = data
    /\ aliased = TRUE
    /\ initialData = data
    /\ changelog = <<>>
    /\ updateBus = <<>>
    /\ eventsBus = <<>>
    /\ steps = 0
    /\ op = Operation("none", <<>>, <<>>, Undef, EmptyDiff, FALSE, <<>>)
    /\ emits = <<>>
    /\ calls = <<>>
    /\ eventsEmits = <<>>
    /\ eventsCalls = <<>>

vars == <<ctxVars, traceVars, blurVars, busVars, storeVars, diffVars, resolveVars, collectVars, reentryVars>>

Init == InitCtx /\ InitBlur /\ InitBus /\ InitStore /\ InitNoDiff /\ InitNoResolve /\ InitCollector /\ InitNoHandler

\* the document and its update cascade
Next ==
    \/ \E b \in Bindings : bindToUpdatedScope(b[1], b[2]) /\ UNCHANGED <<blurVars, busVars, storeVars, diffVars, resolveVars, collectVars, reentryVars>>
    \/ \E t \in DOMAIN updateBus, h \in 1..MaxListeners :
            unbindUpdatedScope(t, h) /\ UNCHANGED <<blurVars, busVars, storeVars, diffVars, resolveVars, collectVars, reentryVars>>
    \/ \E n \in Names, v \in Values, s \in Scopes :
            setControlValue(n, v, s) /\ UNCHANGED <<blurVars, busVars, storeVars, diffVars, resolveVars, collectVars, reentryVars>>
    \/ \E n \in Names, v \in {Num(3), Undef}, s \in {<<>>, KB} :
            updateControlValue(s, n, v, FALSE, FALSE) /\ UNCHANGED <<blurVars, busVars, storeVars, diffVars, resolveVars, collectVars, reentryVars>>
    \/ \E v \in ArrayValues, r \in BOOLEAN :
            updateControlValue(KB, KTags, v, TRUE, r) /\ UNCHANGED <<blurVars, busVars, storeVars, diffVars, resolveVars, collectVars, reentryVars>>
    \/ \E d \in Patches, s \in {<<".">>, KB} : setData(d, s) /\ UNCHANGED <<blurVars, busVars, storeVars, diffVars, resolveVars, collectVars, reentryVars>>
    \/ reset /\ UNCHANGED <<blurVars, busVars, storeVars, diffVars, resolveVars, collectVars, reentryVars>>
    \/ \E n \in Names, s \in {<<>>, KB} : resetControl(n, s) /\ UNCHANGED <<blurVars, busVars, storeVars, diffVars, resolveVars, collectVars, reentryVars>>
    \/ clearChangelog /\ UNCHANGED <<blurVars, busVars, storeVars, diffVars, resolveVars, collectVars, reentryVars>>

Spec == Init /\ [][Next]_vars

\* the document operations alone, with no listener bound, over more scopes
NextCascade ==
    \/ \E n \in Names, v \in Values, s \in CascadeScopes :
            setControlValue(n, v, s) /\ UNCHANGED <<blurVars, busVars, storeVars, diffVars, resolveVars, collectVars, reentryVars>>
    \/ \E n \in Names, v \in {Num(3), Undef}, s \in {<<>>, KB} :
            updateControlValue(s, n, v, FALSE, FALSE) /\ UNCHANGED <<blurVars, busVars, storeVars, diffVars, resolveVars, collectVars, reentryVars>>
    \/ \E v \in ArrayValues, r \in BOOLEAN :
            updateControlValue(KB, KTags, v, TRUE, r) /\ UNCHANGED <<blurVars, busVars, storeVars, diffVars, resolveVars, collectVars, reentryVars>>
    \/ \E d \in Patches, s \in {<<".">>, KB, <<"b", "/", "d">>} :
            setData(d, s) /\ UNCHANGED <<blurVars, busVars, storeVars, diffVars, resolveVars, collectVars, reentryVars>>
    \/ reset /\ UNCHANGED <<blurVars, busVars, storeVars, diffVars, resolveVars, collectVars, reentryVars>>
    \/ \E n \in Names, s \in {<<>>, KB} :
            resetControl(n, s) /\ UNCHANGED <<blurVars, busVars, storeVars, diffVars, resolveVars, collectVars, reentryVars>>
    \/ clearChangelog /\ UNCHANGED <<blurVars, busVars, storeVars, diffVars, resolveVars, collectVars, reentryVars>>

SpecCascade == Init /\ [][NextCascade]_vars

\* { a: 1, b: { c: 3 } } and { a: 1, b: { c: 2, tags: ['x', 'y', 'x'] } }
DocC3 == Obj(<< <<KA, Num(1)>>, <<KB, Obj(<< <<KC, Num(3)>> >>)>> >>)
DocTags ==
    Obj(<< <<KA, Num(1)>>,
           <<KB, Obj(<< <<KC, Num(2)>>,
                        <<KTags, Arr(<<StrV("x"), StrV("y"), StrV("x")>>)>> >>)>> >>)

\* { b: { d: { c: 2 } }, contact: { c: 2 } }: two branches
DocBranches ==
    Obj(<< <<KB, Obj(<< <<<<"d">>, Obj(<< <<KC, Num(2)>> >>)>> >>)>>,
           <<<<"contact">>, Obj(<< <<KC, Num(2)>> >>)>> >>)

\* new data that changes a field on each branch:
\* { b: { d: { c: 3 } }, contact: { c: 3 } }
BranchPatches ==
    {Obj(<< <<KB, Obj(<< <<<<"d">>, Obj(<< <<KC, Num(3)>> >>)>> >>)>>,
            <<<<"contact">>, Obj(<< <<KC, Num(3)>> >>)>> >>)}

\* the live documents a context is constructed with, next to the initial
\* data DocAB
LiveDocs == {DocAB, DocC3, DocTags, DocBranches}

\* makeFHContext({ data, initialData }) with data of LiveDocs and initialData DocAB
InitSnapshot ==
    /\ data \in LiveDocs
    /\ refData = data
    /\ aliased = TRUE
    /\ initialData = DocAB
    /\ changelog = <<>>
    /\ updateBus = <<>>
    /\ eventsBus = <<>>
    /\ steps = 0
    /\ op = Operation("none", <<>>, <<>>, Undef, EmptyDiff, FALSE, <<>>)
    /\ emits = <<>>
    /\ calls = <<>>
    /\ eventsEmits = <<>>
    /\ eventsCalls = <<>>

InitEvents == InitSnapshot /\ InitBlur /\ InitBus /\ InitStore /\ InitNoDiff /\ InitNoResolve /\ InitCollector /\ InitNoHandler

\* the document operations, the initial snapshot and the listeners of `events`
NextEvents ==
    \/ \E t \in EventTopics :
            eventsAddListener(t) /\ UNCHANGED <<blurVars, busVars, storeVars, diffVars, resolveVars, collectVars, reentryVars>>
    \/ \E n \in Names, v \in Values, s \in {<<>>, KB} :
            setControlValue(n, v, s) /\ UNCHANGED <<blurVars, busVars, storeVars, diffVars, resolveVars, collectVars, reentryVars>>
    \/ \E n \in Names, v \in {Num(3), Undef}, s \in {<<>>, KB} :
            updateControlValue(s, n, v, FALSE, FALSE) /\ UNCHANGED <<blurVars, busVars, storeVars, diffVars, resolveVars, collectVars, reentryVars>>
    \/ \E v \in ArrayValues, r \in BOOLEAN :
            updateControlValue(KB, KTags, v, TRUE, r) /\ UNCHANGED <<blurVars, busVars, storeVars, diffVars, resolveVars, collectVars, reentryVars>>
    \/ \E d \in Patches, s \in {<<".">>, KB} :
            setData(d, s) /\ UNCHANGED <<blurVars, busVars, storeVars, diffVars, resolveVars, collectVars, reentryVars>>
    \/ \E d \in BranchPatches :
            setData(d, <<".">>) /\ UNCHANGED <<blurVars, busVars, storeVars, diffVars, resolveVars, collectVars, reentryVars>>
    \/ \E d \in Patches, s \in {<<".">>, KB, <<"b", "/", "d">>} :
            setInitial(d, s) /\ UNCHANGED <<blurVars, busVars, storeVars, diffVars, resolveVars, collectVars, reentryVars>>
    \/ reset /\ UNCHANGED <<blurVars, busVars, storeVars, diffVars, resolveVars, collectVars, reentryVars>>
    \/ \E n \in Names, s \in {<<>>, KB, <<"b", "/", "d">>} :
            resetControl(n, s) /\ UNCHANGED <<blurVars, busVars, storeVars, diffVars, resolveVars, collectVars, reentryVars>>
    \/ clearChangelog /\ UNCHANGED <<blurVars, busVars, storeVars, diffVars, resolveVars, collectVars, reentryVars>>
    \/ \E s \in Scopes :
            getScopedData(s) /\ UNCHANGED <<blurVars, busVars, storeVars, diffVars, resolveVars, collectVars, reentryVars>>

SpecEvents == InitEvents /\ [][NextEvents]_vars

InitDiff == InitCtx /\ InitBlur /\ InitBus /\ InitStore /\ InitDiffArgs /\ InitNoResolve /\ InitCollector /\ InitNoHandler

\* the differ applied to a pair of documents
NextDiff ==
    diffDocuments /\ UNCHANGED <<ctxVars, traceVars, blurVars, busVars, storeVars, resolveVars, collectVars, reentryVars>>

SpecDiff == InitDiff /\ [][NextDiff]_vars

\* blurs and their handlers
NextBlur ==
    \/ \E p \in BlurPaths, st \in BOOLEAN :
            bindToBlurredScope(p, st) /\ UNCHANGED <<ctxVars, traceVars, busVars, storeVars, diffVars, resolveVars, collectVars, reentryVars>>
    \/ \E t \in BlurPaths, k \in 1..MaxListeners :
            unbindBlurredScope(t, k) /\ UNCHANGED <<ctxVars, traceVars, busVars, storeVars, diffVars, resolveVars, collectVars, reentryVars>>
    \/ \E s \in BlurScopes, n \in BlurNames, e \in BOOLEAN :
            blur(s, n, e) /\ UNCHANGED <<ctxVars, traceVars, busVars, storeVars, diffVars, resolveVars, collectVars, reentryVars>>

SpecBlur == Init /\ [][NextBlur]_vars

\* a bus on its own
NextBus ==
    \/ \E t \in BusTopics, l \in BusListeners :
            busAddListener(t, l) /\ UNCHANGED <<ctxVars, traceVars, blurVars, storeVars, diffVars, resolveVars, collectVars, reentryVars>>
    \/ \E k \in 1..MaxRegistrations :
            busUnsubscribe(k) /\ UNCHANGED <<ctxVars, traceVars, blurVars, storeVars, diffVars, resolveVars, collectVars, reentryVars>>
    \/ \E t \in BusTopics, a \in BusArgs :
            busEmit(t, a) /\ UNCHANGED <<ctxVars, traceVars, blurVars, storeVars, diffVars, resolveVars, collectVars, reentryVars>>

SpecBus == Init /\ [][NextBus]_vars

\* the action store
NextStore ==
    \/ \E a \in Actions : dispatch(a) /\ UNCHANGED <<ctxVars, traceVars, blurVars, busVars, diffVars, resolveVars, collectVars, reentryVars>>
    \/ \E r \in {"std", "tag"} :
            appendReducer(r) /\ UNCHANGED <<ctxVars, traceVars, blurVars, busVars, diffVars, resolveVars, collectVars, reentryVars>>
    \/ \E r \in {"std", "tag"} :
            prependReducer(r) /\ UNCHANGED <<ctxVars, traceVars, blurVars, busVars, diffVars, resolveVars, collectVars, reentryVars>>

SpecStore == Init /\ [][NextStore]_vars

\* the action store replaced and merged from outside, next to the dispatches
\* of the application's own reducer
NextReset ==
    \/ \E a \in TagActions :
            dispatch(a) /\ UNCHANGED <<ctxVars, traceVars, blurVars, busVars, diffVars, resolveVars, collectVars, reentryVars>>
    \/ \E r \in {"std", "tag", "reset"} :
            appendReducer(r) /\ UNCHANGED <<ctxVars, traceVars, blurVars, busVars, diffVars, resolveVars, collectVars, reentryVars>>
    \/ \E r \in {"std", "tag", "reset"} :
            prependReducer(r) /\ UNCHANGED <<ctxVars, traceVars, blurVars, busVars, diffVars, resolveVars, collectVars, reentryVars>>
    \/ \E s \in ResetStates :
            resetState(s) /\ UNCHANGED <<ctxVars, traceVars, blurVars, busVars, diffVars, resolveVars, collectVars, reentryVars>>
    \/ \E p \in PartialStates :
            updateState(p) /\ UNCHANGED <<ctxVars, traceVars, blurVars, busVars, diffVars, resolveVars, collectVars, reentryVars>>

SpecReset == Init /\ [][NextReset]_vars

InitResolve == InitCtx /\ InitBlur /\ InitBus /\ InitStore /\ InitNoDiff /\ InitResolveDoc /\ InitCollector /\ InitNoHandler

\* the resolver applied to paths on one document
NextResolve ==
    \E path \in ResolvePaths :
        resolvePath(path)
            /\ UNCHANGED <<ctxVars, traceVars, blurVars, busVars, storeVars, diffVars, collectVars, reentryVars>>

SpecResolve == InitResolve /\ [][NextResolve]_vars

\* emissions during which a listener unsubscribes
NextUnsubscribing ==
    \/ \E t \in BusTopics, l \in BusListeners :
            busAddListener(t, l) /\ UNCHANGED <<ctxVars, traceVars, blurVars, storeVars, diffVars, resolveVars, collectVars, reentryVars>>
    \/ \E t \in BusTopics, a \in BusArgs, l \in BusListeners, k \in 1..MaxRegistrations :
            busEmitUnsubscribing(t, a, l, k) /\ UNCHANGED <<ctxVars, traceVars, blurVars, storeVars, diffVars, resolveVars, collectVars, reentryVars>>

SpecUnsubscribing == Init /\ [][NextUnsubscribing]_vars

\* the actions dispatched from outside and from the handler
ReentryActions == TagActions \cup {a \in StdActions : a.path = Undef}

\* dispatches with a handler that dispatches
NextReentry ==
    \/ \E a \in ReentryActions, i \in ReentryActions :
            dispatchWithHandler(a, i)
                /\ UNCHANGED <<ctxVars, traceVars, blurVars, busVars, diffVars, resolveVars, collectVars>>
    \/ \E r \in {"std", "tag"} :
            appendReducer(r)
                /\ UNCHANGED <<ctxVars, traceVars, blurVars, busVars, diffVars, resolveVars, collectVars, reentryVars>>
    \/ \E r \in {"std", "tag"} :
            prependReducer(r)
                /\ UNCHANGED <<ctxVars, traceVars, blurVars, busVars, diffVars, resolveVars, collectVars, reentryVars>>

SpecReentry == Init /\ [][NextReentry]_vars

\* scopes added to one collector
NextCollect ==
    \E sn \in ScopeArgs :
        collectorAddScope(sn[1], sn[2])
            /\ UNCHANGED <<ctxVars, traceVars, blurVars, busVars, storeVars, diffVars, resolveVars, reentryVars>>

SpecCollect == Init /\ [][NextCollect]_vars

(***************************************************************************)
(* Properties of the update cascade                                        *)
(***************************************************************************)

\* the positions of the last operation's emissions of one kind
EmitsOfKind(kind) == {i \in 1..Len(emits) : emits[i].kind = kind}

\* the positions of the last operation's calls of listeners registered under t
CallsOf(t) == {i \in 1..Len(calls) : calls[i].reg = t}

\* the non-root ancestor scopes of a changed path, most specific included
AncestorScopes(path) ==
    LET parts == SelectSeq(Pop(Split(path, "/")), LAMBDA s : s # <<>> /\ s # <<".">>)
    IN IF PathScope(path) \in RootScopes THEN {}
       ELSE {Join(SubSeq(parts, 1, k), "/") : k \in 1..Len(parts)}

ChangedPaths == {DiffPaths(op.diff)[k] : k \in 1..Len(DiffPaths(op.diff))}

\* C1: an update operation that produces a diff emits one field emission per
\* changed leaf path on that path, then one scope emission per non-root
\* ancestor scope (each scope once), then the global `*` emission; no scope
\* emission precedes a field emission and nothing follows the global one.
C1_ThreePhaseCascade ==
    op.diff.hasDiff =>
        /\ \A p \in ChangedPaths :
              Cardinality({i \in EmitsOfKind("field") : emits[i].topic = p}) = 1
        /\ \A i \in EmitsOfKind("field") : emits[i].topic \in ChangedPaths
        /\ \A p \in ChangedPaths : \A a \in AncestorScopes(p) :
              Cardinality({i \in EmitsOfKind("scope") : emits[i].topic = a}) = 1
        /\ \A i \in EmitsOfKind("scope") :
              \/ \E p \in ChangedPaths : emits[i].topic \in AncestorScopes(p)
              \/ Last(emits[i].topic) = "*"
        /\ \A i, j \in EmitsOfKind("scope") : i # j => emits[i].topic # emits[j].topic
        /\ \A i \in EmitsOfKind("field"), j \in EmitsOfKind("scope") : i < j
        /\ EmitsOfKind("global") = {Len(emits)}
        /\ emits[Len(emits)].topic = Star
        /\ \A i \in 1..(Len(emits) - 1) : emits[i].topic # Star

\* a committed update whose changed leaves share a scope with an ancestor of
\* its own
C1_Witness ==
    /\ op.diff.hasDiff
    /\ \E p, q \in ChangedPaths :
          /\ p # q
          /\ PathScope(p) = PathScope(q)
          /\ Cardinality(AncestorScopes(p)) >= 2
          /\ \E i \in EmitsOfKind("scope") : emits[i].topic = PathScope(p)

\* C2: setControlValue(N, v, S) with a non-root scope S that changes the value
\* calls every handler bound to `S/N` exactly once, then every handler bound
\* to S exactly once, then every global `*` handler exactly once.
C2_FieldScopeGlobalOnce ==
    (op.name = "setControlValue" /\ op.scope \notin RootScopes /\ op.diff.hasDiff) =>
        /\ \A t \in {op.scope \o <<"/">> \o op.field, op.scope, Star} \cap DOMAIN updateBus :
              \A k \in 1..Len(updateBus[t]) :
                 Cardinality({i \in CallsOf(t) : calls[i].h = updateBus[t][k]}) = 1
        /\ \A i \in CallsOf(op.scope \o <<"/">> \o op.field) :
              \A j \in CallsOf(op.scope) \cup CallsOf(Star) : i < j
        /\ \A i \in CallsOf(op.scope), j \in CallsOf(Star) : i < j

\* C3: on a committed update every handler bound to the global `*` topic is
\* called exactly once, after all calls of field and scope handlers.
C3_GlobalHandlerOnceAndLast ==
    (op.diff.hasDiff /\ Star \in DOMAIN updateBus) =>
        /\ \A k \in 1..Len(updateBus[Star]) :
              Cardinality({i \in CallsOf(Star) : calls[i].h = updateBus[Star][k]}) = 1
        /\ \A i \in CallsOf(Star), j \in 1..Len(calls) : calls[j].reg # Star => j < i

(***************************************************************************)
(* Properties of blur propagation                                          *)
(***************************************************************************)

\* the positions of the last blur's calls of handlers bound to path t
BlurCallsOf(t) == {i \in 1..Len(blurCalls) : blurCalls[i].reg = t}

\* the full path of the blurred control
BlurredPath == joinScopes(<<blurOp.scope, blurOp.field>>)

\* C4: a blur(scope, name, evt) whose propagation is never stopped calls the
\* handlers bound to the control's own full path first, then the handlers of
\* its ancestor
\* scopes from most to least specific, and the handlers of the wildcard `*`
\* last.
C4_BlurOrder ==
    (blurOp.name = "blur" /\ blurOp.evt /\ ~blurOp.stopped /\ blurOp.field # <<>>) =>
        /\ \A i \in BlurCallsOf(BlurredPath) :
              \A j \in 1..Len(blurCalls) : blurCalls[j].reg # BlurredPath => i < j
        /\ \A a, b \in AncestorScopes(BlurredPath) :
              StrLen(a) > StrLen(b) =>
                 \A i \in BlurCallsOf(a), j \in BlurCallsOf(b) : i < j
        /\ \A i \in BlurCallsOf(Star) :
              \A j \in 1..Len(blurCalls) : blurCalls[j].reg # Star => j < i

\* C5: once a handler has called stopPropagation on the blur's event, no
\* handler is called afterwards in that blur.
C5_NoCallAfterStop ==
    (blurOp.name = "blur" /\ blurOp.evt) =>
        \A i \in 1..Len(blurCalls) :
           blurCalls[i].h.stops => \A j \in 1..Len(blurCalls) : j <= i

(***************************************************************************)
(* Properties of the event bus                                             *)
(***************************************************************************)

\* the registrations under topic t that are in force, in registration order
ActiveUnder(t) == SelectSeq(registered, LAMBDA r : r.active /\ r.name = t)

\* one call of each of them with the arguments (topic, arg)
CallsUnder(t, topic, arg) ==
    [i \in 1..Len(ActiveUnder(t)) |->
        [h |-> ActiveUnder(t)[i].listener, reg |-> t, args |-> <<topic, arg>>]]

\* C6: emit(topic, arg) calls the handlers registered under topic in
\* registration order with (topic, arg), then the handlers registered under
\* `*` in registration order with the same arguments, and nothing else; with
\* no listener under either, it calls nothing.
C6_EmitTopicThenWildcard ==
    busOp.name = "emit" =>
        busCalls = CallsUnder(busOp.topic, busOp.topic, busOp.arg)
                      \o CallsUnder(Star, busOp.topic, busOp.arg)

\* an emit that reached two handlers of its topic and a wildcard handler
C6_Witness ==
    /\ busOp.name = "emit"
    /\ busOp.topic # Star
    /\ Len(ActiveUnder(busOp.topic)) = 2
    /\ ActiveUnder(busOp.topic)[1].listener > ActiveUnder(busOp.topic)[2].listener
    /\ Len(ActiveUnder(Star)) = 1
    /\ Len(busCalls) = 3

(***************************************************************************)
(* Properties of the action store                                          *)
(***************************************************************************)

\* the node of a state that a std-ops path names
ValueAt(state, path) == GetAt(getDataByPath(state, path).root, getDataByPath(state, path).at)

\* the subgraph the last action names, before and after its dispatch
PtrBefore == ValueAt(storeOp.before, PathOf(storeOp.action))
PtrAfter == ValueAt(storeState, PathOf(storeOp.action))

\* the keys an operation field of the last action names
KeysOf(field) == {Entries(field)[i][1] : i \in 1..Len(Entries(field))}
RemoveKeys == {Entries(storeOp.action.remove)[i] : i \in 1..Len(Entries(storeOp.action.remove))}

\* a std-ops dispatch on a store whose reducers hold standardOpsReducer once
StdDispatch ==
    /\ storeOp.name = "dispatch"
    /\ storeOp.action.type = StdOpsType
    /\ Cardinality({i \in 1..Len(reducers) : reducers[i] = "std"}) = 1

\* C7: a dispatch after which the state's content is what it was before emits
\* nothing and does not replace the state reference.
C7_NoChangeNoEvent ==
    (storeOp.name = "dispatch" /\ storeState = storeOp.before) =>
        storeEmits = <<>> /\ ~storeOp.replaced

\* the positions of the first occurrences in a sequence
FirstSeen(seq) == SelectSeq([i \in 1..Len(seq) |-> i],
                            LAMBDA i : \A j \in 1..(i - 1) : seq[j] # seq[i])

\* the `:`-segments of the topic `action:<action.type>` of the last action
TypeLevels == <<<<"action">>>> \o Split(storeOp.action.type, ":")

\* C8: a committed dispatch emits each distinct inner event once, in
\* first-seen order, under `action:<innerEvent>`, then `action:<type>` and
\* each shorter topic down to `action`, and nothing else.
C8_InnerEventsThenCascade ==
    (storeOp.name = "dispatch" /\ storeOp.replaced) =>
        /\ Len(storeEmits) = Len(FirstSeen(storeOp.innerEvents)) + Len(TypeLevels)
        /\ \A i \in 1..Len(FirstSeen(storeOp.innerEvents)) :
              storeEmits[i] = <<"action", ":">>
                                 \o storeOp.innerEvents[FirstSeen(storeOp.innerEvents)[i]]
        /\ \A j \in 1..Len(TypeLevels) :
              storeEmits[Len(FirstSeen(storeOp.innerEvents)) + j]
                 = Join(SubSeq(TypeLevels, 1, Len(TypeLevels) - j + 1), ":")

\* a committed dispatch with a repeated inner event and a type of two segments
C8_Witness ==
    /\ storeOp.name = "dispatch"
    /\ storeOp.replaced
    /\ Len(FirstSeen(storeOp.innerEvents)) < Len(storeOp.innerEvents)
    /\ Len(FirstSeen(storeOp.innerEvents)) >= 2
    /\ Len(TypeLevels) = 3

\* C9: std-ops `append` sets the keys that are absent at path and leaves the
\* present ones as they are; the inner events of a std-ops action that changes
\* keys are `std-ops:change:<path>:<key>` for each changed key, then
\* `std-ops:change:<path>`, then `std-ops:change`, and every key whose value
\* differs afterwards is among the changed keys.
C9_AppendAndChangeEvents ==
    StdDispatch =>
        /\ storeOp.action.customOp.t = "undef" =>
              \A i \in 1..Len(Entries(storeOp.action.append)) :
                 LET key == Entries(storeOp.action.append)[i][1]
                 IN key \notin RemoveKeys \cup KeysOf(storeOp.action.set)
                                          \cup KeysOf(storeOp.action.increment)
                    => Get(PtrAfter, key)
                          = IF HasKey(PtrBefore, key) THEN Get(PtrBefore, key)
                            ELSE Entries(storeOp.action.append)[i][2]
        /\ storeOp.replaced =>
              storeOp.innerEvents
                 = [i \in 1..Len(storeOp.changedKeys) |->
                       ChangeKeyEvent(PathOf(storeOp.action), storeOp.changedKeys[i])]
                   \o <<ChangePathEvent(PathOf(storeOp.action)), ChangeEvent>>
        /\ \A i, j \in 1..Len(storeOp.changedKeys) :
              i # j => storeOp.changedKeys[i] # storeOp.changedKeys[j]
        /\ \A key \in {KA, KE, KN, KT} :
              Get(PtrAfter, key) # Get(PtrBefore, key)
                 => \E i \in 1..Len(storeOp.changedKeys) : storeOp.changedKeys[i] = key

\* append {a: 5, e: 5} where a is present and e is absent: a is kept, e is added
C9_Witness ==
    /\ StdDispatch
    /\ storeOp.replaced
    /\ storeOp.action.customOp.t = "undef"
    /\ KeysOf(storeOp.action.append) = {KA, KE}
    /\ HasKey(PtrBefore, KA)
    /\ ~HasKey(PtrBefore, KE)
    /\ Get(PtrAfter, KA) = Get(PtrBefore, KA)
    /\ Get(PtrAfter, KE) = Num(5)
    /\ storeOp.changedKeys = <<KE>>

\* the value the last action's customOp patch gives a key
PatchValue(key) ==
    Entries(storeOp.action.customOp)[
        CHOOSE i \in 1..Len(Entries(storeOp.action.customOp)) :
            Entries(storeOp.action.customOp)[i][1] = key][2]

\* C10: with customOp, the keys of its patch are set (deleted when mapped to
\* undefined) at path, the inner events are those of the patch's keys, and
\* the action's other operation fields are ignored: a key they alone name
\* keeps its value and gets no inner event.
C10_CustomOpOnly ==
    (StdDispatch /\ storeOp.action.customOp.t # "undef") =>
        /\ \A key \in KeysOf(storeOp.action.customOp) :
              IF IsUndefined(PatchValue(key)) THEN ~HasKey(PtrAfter, key)
              ELSE Get(PtrAfter, key) = PatchValue(key)
        /\ \A key \in {KA, KE, KN, KT} \ KeysOf(storeOp.action.customOp) :
              /\ HasKey(PtrAfter, key) = HasKey(PtrBefore, key)
              /\ Get(PtrAfter, key) = Get(PtrBefore, key)
              /\ \A i \in 1..Len(storeOp.innerEvents) :
                    storeOp.innerEvents[i] # ChangeKeyEvent(PathOf(storeOp.action), key)
        /\ storeOp.changedKeys
              = [i \in 1..Len(Entries(storeOp.action.customOp)) |->
                    Entries(storeOp.action.customOp)[i][1]]
        /\ storeOp.replaced = (Entries(storeOp.action.customOp) # <<>>)

\* a customOp patch applied while the action also names keys by remove and set
C10_Witness ==
    /\ StdDispatch
    /\ storeOp.replaced
    /\ KeysOf(storeOp.action.customOp) = {KA}
    /\ KE \in KeysOf(storeOp.action.set)
    /\ KA \in RemoveKeys
    /\ Get(PtrAfter, KA) = Num(5)
    /\ Get(PtrBefore, KA) # Num(5)
    /\ ~HasKey(PtrAfter, KE)

(***************************************************************************)
(* Further properties of the action store                                  *)
(***************************************************************************)

\* C11: a std-ops dispatch with increment {k: n} leaves old+n at key k under
\* path when the value there was a number, and leaves a key whose value is
\* not a number as it was, without counting it as a change (keys that another
\* operation field of the same action names are left aside).
C11_IncrementAdds ==
    (StdDispatch /\ storeOp.action.customOp.t = "undef") =>
        \A i \in 1..Len(Entries(storeOp.action.increment)) :
           LET key == Entries(storeOp.action.increment)[i][1]
               n == Entries(storeOp.action.increment)[i][2].v
           IN key \notin RemoveKeys \cup KeysOf(storeOp.action.set)
                                    \cup KeysOf(storeOp.action.append)
              => IF Get(PtrBefore, key).t = "num"
                 THEN Get(PtrAfter, key) = Num(Get(PtrBefore, key).v + n)
                 ELSE /\ Get(PtrAfter, key) = Get(PtrBefore, key)
                      /\ \A j \in 1..Len(storeOp.changedKeys) : storeOp.changedKeys[j] # key

\* C12: resetState(s) leaves s as the store's state and emits `state-reset`.
C12_ResetStateReplaces ==
    storeOp.name = "resetState" =>
        /\ storeState = storeOp.arg
        /\ storeEmits = <<StateResetType>>

(***************************************************************************)
(* Properties of the document operations                                   *)
(***************************************************************************)

\* the operations that update the live document
UpdateOps == {"setControlValue", "updateControlValue", "setData", "resetControl"}

\* the step is a document operation of one of the given names
Performed(names) == steps' = steps + 1 /\ op'.name \in names

\* C13: no update operation (setControlValue, updateControlValue, setData,
\* resetControl) and no reset changes the initial snapshot; reset() makes the
\* live document equal to the initial snapshot, emits `reset` on `events` with
\* the new document and leaves the changelog as it was.
C13_InitialSnapshotKept ==
    [][/\ Performed(UpdateOps \cup {"reset"}) => initialData' = initialData
       /\ Performed({"reset"}) =>
             /\ refData' = initialData
             /\ eventsEmits' = <<EventsEmission(ResetTopic, <<refData'>>)>>
             /\ changelog' = changelog]_vars

\* the value of field name at scope in a document
FieldAt(doc, scope, name) == Get(ValueAt(doc, scope), name)

\* C14: resetControl(name, scope) leaves the field with the value it has in
\* the initial snapshot and hands the cascade a diff whose only entry is the
\* field's path `scope/name` with (old value, initial value); when the field
\* already has its initial value there is no diff and nothing is emitted.
C14_ResetControlRestoresField ==
    [][(Performed({"resetControl"}) /\ ~op'.threw) =>
          /\ FieldAt(refData', op'.scope, op'.field)
                = FieldAt(initialData, op'.scope, op'.field)
          /\ IF FieldAt(refData, op'.scope, op'.field)
                   = FieldAt(initialData, op'.scope, op'.field)
             THEN ~op'.diff.hasDiff /\ emits' = <<>>
             ELSE op'.diff
                     = [hasDiff |-> TRUE,
                        diffs |-> <<[path |-> joinScopes(<<op'.scope, op'.field>>),
                                     ov |-> FieldAt(refData, op'.scope, op'.field),
                                     nv |-> FieldAt(initialData, op'.scope, op'.field)]>>]
      ]_vars

\* C15: an update operation whose diff has changes appends that diff to the
\* changelog, as its last entry; an update operation without changes leaves
\* the changelog as it is and emits nothing; any other step that changes the
\* changelog is clearChangelog emptying it, so reset removes nothing.
C15_ChangelogAppendOnly ==
    [][/\ Performed(UpdateOps) =>
             IF op'.diff.hasDiff
             THEN changelog' = Append(changelog, op'.diff)
             ELSE /\ changelog' = changelog
                  /\ emits' = <<>>
                  /\ calls' = <<>>
                  /\ eventsEmits' = <<>>
       /\ (~Performed(UpdateOps) /\ changelog' # changelog) =>
             /\ changelog' = <<>>
             /\ op'.name = "none"
             /\ steps' = steps
       /\ Performed({"reset"}) => changelog' = changelog]_vars

\* an update without changes after a committed one: the entry is kept
C15_Witness ==
    /\ Len(changelog) = 1
    /\ steps = 2
    /\ op.name \in UpdateOps
    /\ ~op.diff.hasDiff
    /\ emits = <<>>

\* C16: on every committed update (setControlValue, updateControlValue,
\* setData, resetControl) each listener registered on the `events` bus under
\* `updated` or under the wildcard `*` is called.
C16_EventsListenersSeeUpdates ==
    (op.name \in UpdateOps /\ op.diff.hasDiff) =>
        \A t \in {UpdatedTopic, Star} \cap DOMAIN eventsBus :
           \A k \in 1..Len(eventsBus[t]) :
              \E i \in 1..Len(eventsCalls) : eventsCalls[i].h = eventsBus[t][k]

RECURSIVE RemoveFirst(_, _)
\* a sequence without the first of its elements equal to value
RemoveFirst(arr, value) ==
    IF arr = <<>> THEN <<>>
    ELSE IF Head(arr) = value THEN Tail(arr)
    ELSE <<Head(arr)>> \o RemoveFirst(Tail(arr), value)

\* the elements of an array field, none when the field is absent
ElementsOf(field) == IF field.t = "arr" THEN field.v ELSE <<>>

\* C17: updateControlValue in array mode with a defined value leaves the field
\* an array: with isArrRemove the former elements without the first one equal
\* to the value, otherwise the former elements followed by the value; an
\* absent field counts as an empty array.
C17_ArrayModeUpdate ==
    [][(/\ Performed({"updateControlValue"})
        /\ ~op'.threw
        /\ op'.value.isArray
        /\ op'.value.value.t # "undef") =>
          FieldAt(data', op'.scope, op'.field)
             = Arr(IF op'.value.isArrRemove
                   THEN RemoveFirst(ElementsOf(FieldAt(data, op'.scope, op'.field)),
                                    op'.value.value)
                   ELSE Append(ElementsOf(FieldAt(data, op'.scope, op'.field)),
                               op'.value.value))]_vars

\* C18: an updateControlValue of a plain (non-array) field that changes the
\* document records exactly one changed path, the field's document path
\* `scope/name` (`name` at the root), and emits its field emission on that
\* path, whether the value is assigned or, being undefined, deletes the field.
C18_WholeDocumentPath ==
    (op.name = "updateControlValue" /\ ~op.value.isArray /\ op.diff.hasDiff) =>
        /\ DiffPaths(op.diff) = <<joinScopes(<<op.scope, op.field>>)>>
        /\ emits[1] = Emission(joinScopes(<<op.scope, op.field>>), "field")

\* C19: after setInitial(newData, scope) the node of the initial snapshot at
\* scope holds every key of newData with newData's value; the operation emits
\* `set-initial` once on `events`, with a payload for that scope, and nothing
\* on the scoped update bus.
C19_SetInitialMerges ==
    op.name = "setInitial" =>
        /\ \A i \in 1..Len(op.value.v) :
              FieldAt(initialData, op.scope, op.value.v[i][1]) = op.value.v[i][2]
        /\ Len(eventsEmits) = 1
        /\ eventsEmits[1].topic = SetInitialTopic
        /\ eventsEmits[1].args[1].scope = op.scope
        /\ emits = <<>>

(***************************************************************************)
(* Properties of the differ                                                *)
(***************************************************************************)

RECURSIVE SameShape(_, _)
\* two values of one shape: objects with the same keys and values of one
\* shape under each, arrays whose elements at the same index are of one
\* shape, or two leaves (scalars and null)
SameShape(x, y) ==
    IF x.t = "obj"
    THEN /\ y.t = "obj"
         /\ {x.v[i][1] : i \in 1..Len(x.v)} = {y.v[i][1] : i \in 1..Len(y.v)}
         /\ \A i \in 1..Len(x.v) : SameShape(x.v[i][2], Get(y, x.v[i][1]))
    ELSE IF x.t = "arr"
    THEN /\ y.t = "arr"
         /\ \A i \in 1..Len(x.v) : i <= Len(y.v) => SameShape(x.v[i], y.v[i])
    ELSE y.t \notin {"obj", "arr"}

RECURSIVE LeavesEqual(_, _)
\* every leaf of one value is in the other, with an equal value
LeavesEqual(x, y) ==
    IF x.t = "obj"
    THEN /\ y.t = "obj"
         /\ {x.v[i][1] : i \in 1..Len(x.v)} = {y.v[i][1] : i \in 1..Len(y.v)}
         /\ \A i \in 1..Len(x.v) : LeavesEqual(x.v[i][2], Get(y, x.v[i][1]))
    ELSE IF x.t = "arr"
    THEN /\ y.t = "arr"
         /\ Len(x.v) = Len(y.v)
         /\ \A i \in 1..Len(x.v) : LeavesEqual(x.v[i], y.v[i])
    ELSE x = y

\* C20: for two documents of the same shape computeDiff reports hasDiff =
\* FALSE exactly when all their leaves are equal, also for leaves inside nested
\* objects and arrays of objects; for equal documents it returns hasDiff =
\* FALSE and an empty diffs map.
C20_DiffDetectsLeafChanges ==
    (diffResult # <<>> /\ SameShape(diffArgs[1], diffArgs[2])) =>
        /\ diffResult[1].hasDiff = ~LeavesEqual(diffArgs[1], diffArgs[2])
        /\ LeavesEqual(diffArgs[1], diffArgs[2]) => diffResult[1] = EmptyDiff

\* two documents that differ in one leaf of an object inside an array
C20_Witness ==
    /\ diffResult # <<>>
    /\ diffArgs[1] = Obj(<< <<KTags, Arr(<<Num(1), Obj(<< <<KC, Num(1)>> >>)>>)>> >>)
    /\ diffArgs[2] = Obj(<< <<KTags, Arr(<<Num(1), Obj(<< <<KC, Null>> >>)>>)>> >>)
    /\ SameShape(diffArgs[1], diffArgs[2])
    /\ diffResult[1].hasDiff
    /\ DiffPaths(diffResult[1]) = <<<<"tags", "[", "1", "]">>>>

(***************************************************************************)
(* Properties of the path resolver                                         *)
(***************************************************************************)

\* the components of a path
Components(path) == Split(path, "/")

\* every component is a plain key: not empty, not '.', without brackets
PlainKeyPath(path) ==
    \A i \in 1..Len(Components(path)) :
        LET c == Components(path)[i]
        IN c # <<>> /\ c # <<".">> /\ \A j \in 1..Len(c) : c[j] \notin {"[", "]"}

\* no component is an array component (name[], name[n], [] or [n])
NonArrayPath(path) ==
    \A i \in 1..Len(Components(path)) : ~parsePathComponent(Components(path)[i]).isArray

RECURSIVE IntermediatesFit(_, _)
\* every node the keys pass through is an object or missing
IntermediatesFit(doc, keys) ==
    /\ doc.t = "obj"
    /\ keys # <<>> => (HasKey(doc, Head(keys)) => IntermediatesFit(Get(doc, Head(keys)), Tail(keys)))

RECURSIVE WithPath(_, _)
\* the document with an empty object in every missing place along the keys
WithPath(doc, keys) ==
    IF keys = <<>> THEN doc
    ELSE PutKey(doc, Head(keys),
                WithPath(IF HasKey(doc, Head(keys)) THEN Get(doc, Head(keys)) ELSE Obj(<<>>),
                         Tail(keys)))

KeySteps(keys) == [i \in 1..Len(keys) |-> KeyStep(keys[i])]

\* C21: resolving a path of plain keys creates every missing intermediate
\* object and returns the innermost node, and resolving the same non-array
\* path again returns the same node and changes the document no further
C21_ResolveCreatesPath ==
    [][resolves' = resolves + 1 =>
        LET path == resolveOp'.path
            keys == Components(path)
        IN /\ (PlainKeyPath(path) /\ IntermediatesFit(resolveDoc, keys)) =>
                /\ resolveOp'.status = "ok"
                /\ resolveDoc' = WithPath(resolveDoc, keys)
                /\ resolveOp'.at = KeySteps(keys)
                /\ GetAt(resolveDoc', resolveOp'.at).t = "obj"
           /\ (/\ resolves >= 1
               /\ resolveOp.path = path
               /\ NonArrayPath(path)
               /\ resolveOp.status = "ok") =>
                /\ resolveOp'.status = "ok"
                /\ resolveDoc' = resolveDoc
                /\ resolveOp'.at = resolveOp.at]_vars

\* 'a/b/c' was resolved twice and the document is { a: { b: { c: {} } } },
\* which the second call left as it was
C21_Witness ==
    /\ resolves = 2
    /\ resolveOp.path = <<"a", "/", "b", "/", "c">>
    /\ resolveOp.prev # <<>>
    /\ resolveOp.prev[1].path = resolveOp.path
    /\ resolveOp.before = resolveDoc
    /\ resolveOp.at = KeySteps(<<KA, KB, KC>>)
    /\ resolveDoc = Obj(<< <<KA, Obj(<< <<KB, Obj(<< <<KC, Obj(<<>>)>> >>)>> >>)>> >>)
    /\ GetAt(resolveDoc, resolveOp.at) = Obj(<<>>)

\* the components of a path that are unnamed array components
UnnamedArrayComponents(path) ==
    {i \in 1..Len(Components(path)) :
        LET p == parsePathComponent(Components(path)[i])
        IN p.name = <<>> /\ p.isArray}

\* C22: a path with an unnamed array component fails with the error "unnamed
\* array not allowed", and the failed call leaves the document as it was
C22_UnnamedArrayLeavesDocument ==
    (resolves > 0 /\ UnnamedArrayComponents(resolveOp.path) # {}) =>
        /\ resolveOp.status = "grammar"
        /\ resolveDoc = resolveOp.before

\* the path without its empty and '.' components
CleanPath(path) ==
    Join(SelectSeq(Components(path), LAMBDA c : c # <<>> /\ c # <<".">>), "/")

\* C29: removing the empty and the '.' components of a path does not change
\* which node is resolved
C29_EmptyComponentsIgnored ==
    (resolves > 0 /\ resolveOp.status = "ok") =>
        LET w == getDataByPath(resolveOp.before, CleanPath(resolveOp.path))
        IN /\ w.status = "ok"
           /\ w.at = resolveOp.at
           /\ w.root = resolveDoc

(***************************************************************************)
(* Properties of the scope collector                                       *)
(***************************************************************************)

\* the segments of a scope that count: not empty and not '.'
Segments(scope) == SelectSeq(Split(scope, "/"), LAMBDA c : c # <<>> /\ c # <<".">>)

\* the segments of the last addScope: those of the scope, then the name
AddedSegments ==
    Segments(collectOp.scope) \o (IF collectOp.name # <<>> THEN <<collectOp.name>> ELSE <<>>)

\* the sequence s has no element twice
NoDuplicates(s) == \A i, j \in 1..Len(s) : i # j => s[i] # s[j]

\* C23: addScope returns the full joined path and records it, the wildcard
\* form scope/* and every ancestor prefix; getScopes returns each recorded
\* scope once, longest first and in ascending order among equal lengths
C23_CollectorRecordsAndSorts ==
    adds > 0 =>
        LET segs == AddedSegments
            scopes == getScopes(qScopes)
        IN /\ collectOp.path = Join(segs, "/")
           /\ \A n \in 1..Len(segs) : Join(SubSeq(segs, 1, n), "/") \in qScopes
           /\ collectOp.name # <<>> =>
                (Join(Segments(collectOp.scope), "/") \o <<"/", "*">>) \in qScopes
           /\ {scopes[i] : i \in 1..Len(scopes)} = qScopes
           /\ NoDuplicates(scopes)
           /\ \A i, j \in 1..Len(scopes) :
                i < j => \/ StrLen(scopes[i]) > StrLen(scopes[j])
                         \/ /\ StrLen(scopes[i]) = StrLen(scopes[j])
                            /\ StrLess(scopes[i], scopes[j])

\* addScope('contact/email', 'primary') and addScope('contact/phone', 'x') on
\* one collector: three scopes of length 15 are in ascending order
C23_Witness ==
    /\ adds = 2
    /\ collectOp.path \in {<<"contact", "/", "email", "/", "primary">>,
                           <<"contact", "/", "phone", "/", "x">>}
    /\ getScopes(qScopes) =
        << <<"contact", "/", "email", "/", "primary">>,
           <<"contact", "/", "email", "/", "*">>,
           <<"contact", "/", "phone", "/", "*">>,
           <<"contact", "/", "phone", "/", "x">>,
           <<"contact", "/", "email">>,
           <<"contact", "/", "phone">>,
           <<"contact">> >>

\* segment i of the scope is a bracketed array segment foo[n]
IsArraySegment(seg) == parsePathComponent(seg).isArray /\ parsePathComponent(seg).name # <<>>

\* C30: for every bracketed array segment foo[i] of an added scope, getScopes
\* contains the wildcard foo/* under the segment's parent prefix
C30_ArrayWildcardRecorded ==
    adds > 0 =>
        LET segs == Segments(collectOp.scope)
            scopes == getScopes(qScopes)
        IN \A i \in 1..Len(segs) :
            IsArraySegment(segs[i]) =>
                \E k \in 1..Len(scopes) :
                    scopes[k] = Join(Append(SubSeq(segs, 1, i - 1),
                                            parsePathComponent(segs[i]).name), "/")
                                    \o <<"/", "*">>

(***************************************************************************)
(* Further properties of the differ                                        *)
(***************************************************************************)

\* C28: for every pair of inputs, also when one of two compared values is null
\* and the other an object, hasDiff is true exactly when diffs is not empty
C28_HasDiffIffDiffs ==
    diffResult # <<>> =>
        (diffResult[1].hasDiff <=> DiffPaths(diffResult[1]) # <<>>)

(***************************************************************************)
(* Further properties of the document operations                           *)
(***************************************************************************)

\* C26: the document handed to the global handlers of an update equals the
\* document as it was before the update was applied
C26_GlobalCarriesPreMutation ==
    [][(Performed(UpdateOps) /\ op'.clone # <<>>) =>
            op'.clone[1] = jsonClone(refData)]_vars

\* C27: getScopedData(scope) leaves the live document as it was and emits
\* nothing, also for a scope that does not exist yet
C27_GetScopedDataReadOnly ==
    [][Performed({"getScopedData"}) =>
            /\ refData' = refData
            /\ data' = data
            /\ emits' = <<>>
            /\ eventsEmits' = <<>>]_vars

\* number of path segments of a scope
SegmentCount(scope) == Len(Split(scope, "/"))

\* the scopes notified by the last update, in the order of their emissions,
\* without the array wildcards (foo/*)
ScopesNotified ==
    LET es == SelectSeq(emits, LAMBDA e : e.kind = "scope" /\ Last(e.topic) # "*")
    IN [i \in 1..Len(es) |-> es[i].topic]

\* C24: the ancestor scopes of an update are notified once each, never the
\* root, and a scope with fewer segments never before one with more segments
C24_DeepestScopesFirst ==
    LET scopes == ScopesNotified
    IN /\ NoDuplicates(scopes)
       /\ \A i \in 1..Len(scopes) : scopes[i] \notin RootScopes
       /\ \A i, j \in 1..Len(scopes) :
            i < j => SegmentCount(scopes[i]) >= SegmentCount(scopes[j])

(***************************************************************************)
(* Transient fields of the action store                                    *)
(***************************************************************************)

\* the state carried in the payloads of the last operation's events: dispatch
\* emits nstate and stores { ...nstate }, resetState and updateState emit
\* this.state
PayloadState == storeState

HasTransients(state) == HasKey(state, InnerEventsKey) \/ HasKey(state, ChangedKeysKey)

\* C25: after any sequence of dispatch, resetState and updateState, neither
\* the state the store holds nor the state in an emitted payload contains
\* __innerEvents or __changedKeys
C25_TransientsNeverStored ==
    /\ ~HasTransients(storeState)
    /\ storeEmits # <<>> => ~HasTransients(PayloadState)

(***************************************************************************)
(* Update operations and the live document                                 *)
(***************************************************************************)

\* C31: updateControlValue({scope, name, value}) leaves the field of the live
\* document, the one getData() returns, holding value, also after reset() has
\* replaced the live document, and its diff is the one between the live
\* document before and after the call
C31_UpdateActsOnLiveDocument ==
    [][(/\ Performed({"updateControlValue"})
        /\ ~op'.threw
        /\ ~op'.value.isArray
        /\ ~IsUndefined(op'.value.value)) =>
            /\ FieldAt(refData', op'.scope, op'.field) = op'.value.value
            /\ op'.diff = computeDiff(jsonClone(refData), refData', <<>>, EmptyDiff)]_vars

(***************************************************************************)
(* Re-entrant dispatch                                                     *)
(***************************************************************************)

\* the top-level keys the handler's dispatch changed
KeysChangedByInner(h) ==
    {k \in KeysOf(h.seen) \cup KeysOf(h.after) : Get(h.seen, k) # Get(h.after, k)}

\* C32: a state change committed by a dispatch from inside a handler is still
\* in the store's state when the outer dispatch has returned, and while the
\* handler runs getState() equals the state in its event payload
C32_ReentrantDispatchKeepsUpdates ==
    storeHandler # <<>> =>
        LET h == storeHandler[1]
        IN /\ h.committed =>
                \A k \in KeysChangedByInner(h) : Get(storeState, k) = Get(h.after, k)
           /\ h.seen = h.payload

(***************************************************************************)
(* Unsubscribing during an emission                                        *)
(***************************************************************************)

\* how often the listener is registered under the topic, and how often the
\* calls invoke it as a listener of the topic
TimesRegistered(handlerMap, topic, listener) ==
    IF topic \notin DOMAIN handlerMap THEN 0
    ELSE Cardinality({i \in 1..Len(handlerMap[topic]) : handlerMap[topic][i] = listener})

TimesCalled(cs, topic, listener) ==
    Cardinality({i \in 1..Len(cs) : cs[i].reg = topic /\ cs[i].h = listener})

\* C33: an emit on a topic other than '*' invokes every handler registered
\* under the topic or under '*' when the emit starts exactly once, also when a
\* handler unsubscribes itself or another handler during the emission
C33_EmitCallsEveryRegistered ==
    [][(busOp'.name = "emit" /\ busOp'.topic # Star) =>
          \A t \in {busOp'.topic, Star}, l \in BusListeners :
              TimesCalled(busCalls', t, l) = TimesRegistered(bus, t, l)]_vars

====
